---- MODULE Spec2Model ----
(***************************************************************************)
(* Model of the Lambda comparison tooling of vikramkute/lambda-automation. *)
(*                                                                         *)
(* ASTComparator.compare() (src/compare_lambda_functions_ast.py) and       *)
(* ATSComparator.compare() (src/compare_lambda_functions_ats.py) take the  *)
(* two units' extracted configuration, dependency list and structural      *)
(* summary and produce the comparison record.  The extracted values are    *)
(* the inputs (config1/2, deps1/2, ast1/2); the comparison record is held  *)
(* in config_diffs, dep_diff, metrics1/2, metrics_comp, ast_cmp.           *)
(*                                                                         *)
(* The extraction itself reads the two unit directories unit1/2 (the       *)
(* template, the requirements manifest, the source files); CompareUnits is *)
(* compare() run on the directories, CompareFunctionsAst the driver        *)
(* compare_functions_ast(), and BatchStart/BatchPair/BatchFinish the loop  *)
(* of compare_from_config_ast() and compare_from_config().  An exception   *)
(* that leaves an operation is recorded in raised.                         *)
(*                                                                         *)
(* Python floats are modelled as exact rationals [n, d] in lowest terms.   *)
(* Python strings are TLA+ strings; their ordering (used by sorted()) is   *)
(* given by the position in NameOrder, which lists every string of the     *)
(* model in code-point order.                                               *)
(***************************************************************************)
EXTENDS Integers, Sequences, FiniteSets, TLC

VARIABLES pc, comparator, config1, config2, deps1, deps2, ast1, ast2,
          config_diffs, dep_diff, metrics1, metrics2, metrics_comp,
          scores, ast_cmp,
          unit1, unit2, event_sources1, event_sources2, raised, steps,
          created, comparisons, idx, console, world, returned

vars == <<pc, comparator, config1, config2, deps1, deps2, ast1, ast2,
          config_diffs, dep_diff, metrics1, metrics2, metrics_comp,
          scores, ast_cmp,
          unit1, unit2, event_sources1, event_sources2, raised, steps,
          created, comparisons, idx, console, world, returned>>

\* what compare() reads: the two unit directories
units == <<unit1, unit2>>

\* what the driver and the batch keep besides the comparison record
driver == <<steps, created, comparisons, idx, console>>

inputs == <<config1, config2, deps1, deps2, ast1, ast2>>

\* what the deployment and upgrade tools run in (the configuration file and
\* what the commands, the user and AWS will answer) and what a tool returned
tool == <<world, returned>>

\* ------------------------------------------------------------------ bounds

\* longest function-name sequence / package list drawn as an input
MaxLen == 2
\* largest cyclomatic complexity drawn in the complexity specification
MaxComplexity == 12

\* ----------------------------------------------------------------- strings

\* Every string of the model, in Python's str ordering (code points).
NameOrder ==
    <<"# pinned", "Client", "boto3", "boto3.client", "boto3.get", "boto3==1.26.0", "f", "g", "h",
      "helper", "helper.client", "helper.get", "json", "lambda_handler", "len.client",
      "len.get",
      "requests==2.28.0", "result", "wraps">>

Rank(x) == CHOOSE i \in 1..Len(NameOrder) : NameOrder[i] = x

\* Python set(list)
ToSet(list) == {list[i] : i \in DOMAIN list}

\* Python sorted(list(S)) for a set S of strings
RECURSIVE sorted(_)
sorted(S) ==
    IF S = {} THEN <<>>
    ELSE LET m == CHOOSE x \in S : \A y \in S : Rank(x) <= Rank(y)
         IN  <<m>> \o sorted(S \ {m})

\* all sequences over S of length at most n
SeqsUpTo(S, n) == UNION {[1..k -> S] : k \in 0..n}

\* -------------------------------------------------------------- rationals

RECURSIVE GCD(_, _)
GCD(a, b) == IF b = 0 THEN a ELSE GCD(b, a % b)

Abs(i) == IF i < 0 THEN -i ELSE i

\* the rational n/d (d > 0) in lowest terms
Rat(n, d) ==
    LET g == GCD(Abs(n), d)
    IN  IF n = 0 THEN [n |-> 0, d |-> 1] ELSE [n |-> n \div g, d |-> d \div g]

RatOf(i) == [n |-> i, d |-> 1]
RatAdd(x, y) == Rat(x.n * y.d + y.n * x.d, x.d * y.d)
RatSub(x, y) == Rat(x.n * y.d - y.n * x.d, x.d * y.d)
RatDivInt(x, k) == Rat(x.n, x.d * k)
RatLe(x, y) == x.n * y.d <= y.n * x.d
RatLt(x, y) == x.n * y.d < y.n * x.d
RatMin(x, y) == IF RatLe(x, y) THEN x ELSE y
RatMax(x, y) == IF RatLe(x, y) THEN y ELSE x
RatAbs(x) == [n |-> Abs(x.n), d |-> x.d]

RECURSIVE RatSum(_)
RatSum(s) == IF s = <<>> THEN RatOf(0) ELSE RatAdd(Head(s), RatSum(Tail(s)))

Max(a, b) == IF a >= b THEN a ELSE b
Min(a, b) == IF a <= b THEN a ELSE b

\* ------------------------------------------------------------- DiffEngine

\* mutant of get_set_diff: the common elements are not taken out of the second list
get_set_diff_no_subtract(set1, set2) ==
    [only_in_first  |-> sorted(ToSet(set1) \ ToSet(set2)),
     only_in_second |-> sorted(ToSet(set2)),
     common         |-> sorted(ToSet(set1) \cap ToSet(set2))]

\* first occurrences of a list's elements that satisfy keep, in list order
RECURSIVE FirstOccurrences(_, _)
FirstOccurrences(list, keep) ==
    IF list = <<>> THEN <<>>
    ELSE IF Head(list) \in keep
         THEN <<Head(list)>> \o FirstOccurrences(Tail(list), keep \ {Head(list)})
         ELSE FirstOccurrences(Tail(list), keep)

\* mutant of get_set_diff: the three lists are not sorted but keep the order
\* in which the elements are met in the first, then the second argument
get_set_diff_unsorted(set1, set2) ==
    [only_in_first  |-> FirstOccurrences(set1, ToSet(set1) \ ToSet(set2)),
     only_in_second |-> FirstOccurrences(set2, ToSet(set2) \ ToSet(set1)),
     common         |-> FirstOccurrences(set1 \o set2, ToSet(set1) \cap ToSet(set2))]

get_set_diff(set1, set2) ==
    [only_in_first  |-> sorted(ToSet(set1) \ ToSet(set2)),
     only_in_second |-> sorted(ToSet(set2) \ ToSet(set1)),
     common         |-> sorted(ToSet(set1) \cap ToSet(set2))]

compare_dependencies(d1, d2) ==
    [total_difference  |-> Abs(d1.total_packages - d2.total_packages),
     only_in_function1 |-> sorted(ToSet(d1.packages) \ ToSet(d2.packages)),
     only_in_function2 |-> sorted(ToSet(d2.packages) \ ToSet(d1.packages)),
     common            |-> sorted(ToSet(d1.packages) \cap ToSet(d2.packages)),
     function1_count   |-> d1.total_packages,
     function2_count   |-> d2.total_packages]

\* ------------------------------------------------------- SimilarityScorer

\* Python None
NoneValue == [none |-> TRUE]

\* mutant of functions_applicable: the sub-score is taken as soon as one of
\* the two function lists is non-empty
functions_applicable_either(a1, a2) == a1.functions # <<>> \/ a2.functions # <<>>

\* "if ast1.functions and ast2.functions"
functions_applicable(a1, a2) == a1.functions # <<>> /\ a2.functions # <<>>

\* "if ast1.imports and ast2.imports"
imports_applicable(a1, a2) == a1.imports # <<>> /\ a2.imports # <<>>

\* "if ast1.external_calls and ast2.external_calls"
calls_applicable(a1, a2) == a1.external_calls # <<>> /\ a2.external_calls # <<>>

\* (len(set(l1) & set(l2)) / max(len(l1), len(l2))) * 100
overlap_ratio(l1, l2) ==
    Rat(Cardinality(ToSet(l1) \cap ToSet(l2)) * 100, Max(Len(l1), Len(l2)))

\* mutant of func_similarity: the denominator counts distinct names
func_similarity_distinct(a1, a2) ==
    Rat(Cardinality(ToSet(a1.functions) \cap ToSet(a2.functions)) * 100,
        Max(Cardinality(ToSet(a1.functions)), Cardinality(ToSet(a2.functions))))

\* mutant of func_similarity: the common names are counted once per occurrence
\* in the first list, the denominator counts distinct names
func_similarity_multiplicity(a1, a2) ==
    Rat(Cardinality({i \in DOMAIN a1.functions :
                        a1.functions[i] \in ToSet(a2.functions)}) * 100,
        Max(Cardinality(ToSet(a1.functions)), Cardinality(ToSet(a2.functions))))

\* mutant of func_similarity: the denominator is the first list's length
func_similarity_by_first(a1, a2) ==
    Rat(Cardinality(ToSet(a1.functions) \cap ToSet(a2.functions)) * 100,
        Len(a1.functions))

func_similarity(a1, a2) == overlap_ratio(a1.functions, a2.functions)

import_similarity(a1, a2) == overlap_ratio(a1.imports, a2.imports)

call_similarity(a1, a2) == overlap_ratio(a1.external_calls, a2.external_calls)

\* mutant of complexity_similarity: the penalty is not capped at 50
complexity_similarity_uncapped(a1, a2) ==
    100 - Abs(a1.cyclomatic_complexity - a2.cyclomatic_complexity) * 5

complexity_similarity(a1, a2) ==
    100 - Min(50, Abs(a1.cyclomatic_complexity - a2.cyclomatic_complexity) * 5)

\* mutant of handler_score: no entry point on either side counts as agreement
handler_score_neither_full(a1, a2) ==
    IF a1.has_lambda_handler = a2.has_lambda_handler THEN 100 ELSE 20

handler_score(a1, a2) ==
    IF a1.has_lambda_handler /\ a2.has_lambda_handler THEN 100
    ELSE IF ~a1.has_lambda_handler /\ ~a2.has_lambda_handler THEN 50
    ELSE 20

\* the local list "scores" once every append has run
similarity_scores(a1, a2) ==
       (IF functions_applicable(a1, a2) THEN <<func_similarity(a1, a2)>> ELSE <<>>)
    \o (IF imports_applicable(a1, a2) THEN <<import_similarity(a1, a2)>> ELSE <<>>)
    \o (IF calls_applicable(a1, a2) THEN <<call_similarity(a1, a2)>> ELSE <<>>)
    \o <<RatOf(complexity_similarity(a1, a2))>>
    \o <<RatOf(handler_score(a1, a2))>>

\* sum(scores) / len(scores) if scores else 0.0
calculate_semantic_similarity(a1, a2) ==
    LET sc == similarity_scores(a1, a2)
    IN  IF sc = <<>> THEN RatOf(0) ELSE RatDivInt(RatSum(sc), Len(sc))

\* mutant of compare_ast_analysis: the degraded record carries a score
compare_ast_analysis_scored(a1, a2) ==
    IF a1 = NoneValue \/ a2 = NoneValue
    THEN [status |-> "incomplete",
          message |-> "One or both functions could not be analyzed",
          semantic_similarity_score |-> RatOf(0)]
    ELSE [status |-> "complete"]

\* ASTComparator._compare_ast_analysis
compare_ast_analysis(a1, a2) ==
    IF a1 = NoneValue \/ a2 = NoneValue
    THEN [status |-> "incomplete",
          message |-> "One or both functions could not be analyzed"]
    ELSE [functions_diff      |-> get_set_diff(a1.functions, a2.functions),
          classes_diff        |-> get_set_diff(a1.classes, a2.classes),
          imports_diff        |-> get_set_diff(a1.imports, a2.imports),
          decorators_diff     |-> get_set_diff(a1.decorators, a2.decorators),
          external_calls_diff |-> get_set_diff(a1.external_calls, a2.external_calls),
          variables_diff      |-> get_set_diff(a1.variables_defined, a2.variables_defined),
          complexity_diff     |-> [function1  |-> a1.cyclomatic_complexity,
                                   function2  |-> a2.cyclomatic_complexity,
                                   difference |-> a2.cyclomatic_complexity
                                                  - a1.cyclomatic_complexity],
          lines_diff          |-> a2.total_lines - a1.total_lines,
          statements_diff     |-> a2.total_statements - a1.total_statements,
          both_have_handler   |-> a1.has_lambda_handler /\ a2.has_lambda_handler,
          semantic_similarity_score |-> calculate_semantic_similarity(a1, a2)]

\* -------------------------------------------------- configuration diffing

\* the explicit field list of ASTComparator._compare_configs
AstFields ==
    <<"runtime", "memory", "timeout", "handler", "architecture",
      "tracing_enabled", "ephemeral_storage", "layers", "environment_vars",
      "description">>

\* FunctionConfig.__dataclass_fields__, in declaration order
DataclassFields ==
    <<"name", "runtime", "memory", "timeout", "handler", "description",
      "environment_vars", "layers", "tracing_enabled", "ephemeral_storage",
      "architecture">>

\* ASTComparator._get_significance
get_significance(field) ==
    IF field \in {"runtime", "memory", "timeout", "architecture"}
    THEN "CRITICAL"
    ELSE IF field \in {"handler", "layers", "tracing_enabled", "environment_vars",
                       "ephemeral_storage"}
    THEN "IMPORTANT"
    ELSE "MINOR"

\* ATSComparator._get_significance
ats_get_significance(field) ==
    IF field \in {"runtime", "handler", "memory", "timeout"}
    THEN "CRITICAL"
    ELSE IF field \in {"environment_vars", "layers", "architecture"}
    THEN "IMPORTANT"
    ELSE "MINOR"

\* the loop of ASTComparator._compare_configs over the fields not yet visited
RECURSIVE compare_fields(_, _, _)
compare_fields(fields, c1, c2) ==
    IF fields = <<>> THEN <<>>
    ELSE LET field == Head(fields)
             rest  == compare_fields(Tail(fields), c1, c2)
         IN  IF c1[field] # c2[field]
             THEN <<[field           |-> field,
                     function1_value |-> c1[field],
                     function2_value |-> c2[field],
                     significance    |-> get_significance(field)]>> \o rest
             ELSE rest

\* mutant of compare_configs: the loop stops at the first difference
compare_configs_first_only(c1, c2) ==
    LET d == compare_fields(AstFields, c1, c2)
    IN  IF d = <<>> THEN <<>> ELSE <<Head(d)>>

\* ASTComparator._compare_configs
compare_configs(c1, c2) == compare_fields(AstFields, c1, c2)

\* the loop of ATSComparator._compare_configs over the fields not yet visited
RECURSIVE ats_compare_fields(_, _, _)
ats_compare_fields(fields, c1, c2) ==
    IF fields = <<>> THEN <<>>
    ELSE LET field == Head(fields)
             rest  == ats_compare_fields(Tail(fields), c1, c2)
         IN  IF c1[field] # c2[field]
             THEN <<[field        |-> field,
                     function1    |-> c1[field],
                     function2    |-> c2[field],
                     significance |-> ats_get_significance(field)]>> \o rest
             ELSE rest

\* ATSComparator._compare_configs
ats_compare_configs(c1, c2) == ats_compare_fields(DataclassFields, c1, c2)

\* ATSComparator._compare_dependencies
ats_compare_dependencies(d1, d2) ==
    [only_in_function1 |-> sorted(ToSet(d1.packages) \ ToSet(d2.packages)),
     only_in_function2 |-> sorted(ToSet(d2.packages) \ ToSet(d1.packages)),
     common            |-> sorted(ToSet(d1.packages) \cap ToSet(d2.packages)),
     total_difference  |-> Abs(Cardinality(ToSet(d1.packages))
                               - Cardinality(ToSet(d2.packages)))]

\* ------------------------------------------------------- MetricsEstimator

\* mutant of memory_efficiency: the ratio is not capped
memory_efficiency_uncapped(memory) == Rat(memory * 100, 3008)

\* min(100.0, (config.memory / 3008.0) * 100)
memory_efficiency(memory) == RatMin(RatOf(100), Rat(memory * 100, 3008))

\* ASTComparator._calculate_metrics
calculate_metrics(config, deps) ==
    [memory_efficiency        |-> memory_efficiency(config.memory),
     estimated_coldstart_time |-> RatOf(200 + deps.total_packages * 10),
     code_complexity_score    |-> RatMax(RatOf(1), Rat(2 + deps.total_packages, 2)),
     dependency_count         |-> deps.total_packages]

\* ASTComparator._compare_metrics
compare_metrics(m1, m2) ==
    LET coldstart_diff == RatSub(m2.estimated_coldstart_time, m1.estimated_coldstart_time)
    IN  [coldstart_diff_ms      |-> RatAbs(coldstart_diff),
         coldstart_faster       |-> IF RatLt(RatOf(0), coldstart_diff)
                                    THEN "function1" ELSE "function2",
         memory_efficiency_diff |-> RatAbs(RatSub(m1.memory_efficiency,
                                                  m2.memory_efficiency)),
         complexity_diff        |-> RatAbs(RatSub(m1.code_complexity_score,
                                                  m2.code_complexity_score))]

\* ------------------------------------------------------------ the inputs

\* the FunctionConfig _extract_function_config returns without a template
DefaultConfig(name) ==
    [name              |-> name,
     runtime           |-> "unknown",
     memory            |-> 128,
     timeout           |-> 3,
     handler           |-> "lambda_function.lambda_handler",
     description       |-> "",
     environment_vars  |-> {},
     layers            |-> <<>>,
     tracing_enabled   |-> FALSE,
     ephemeral_storage |-> 512,
     architecture      |-> "x86_64"]

\* a second value for every field; environment_vars is the dict as its set
\* of (key, value) items
OtherConfig ==
    [name              |-> "myTestFunction5",
     runtime           |-> "python3.14",
     memory            |-> 256,
     timeout           |-> 30,
     handler           |-> "index.handler",
     description       |-> "Test function",
     environment_vars  |-> {<<"LOG_LEVEL", "INFO">>},
     layers            |-> <<"layer1">>,
     tracing_enabled   |-> TRUE,
     ephemeral_storage |-> 1024,
     architecture      |-> "arm64"]

\* every config that takes each field from DefaultConfig or from OtherConfig
Configs ==
    {[f \in DOMAIN OtherConfig |->
         IF f \in D THEN OtherConfig[f] ELSE DefaultConfig("myTestFunction2")[f]] :
       D \in SUBSET DOMAIN OtherConfig}

\* memory sizes drawn for the metrics (MB)
MemValues == {0, 128, 256, 1024, 1504, 2048, 3008, 3009, 4096, 10240}

\* the FunctionDependencies _get_requirements returns for a package list
Deps(packages) ==
    [python_version   |-> "3.12",
     total_packages   |-> Len(packages),
     packages         |-> packages,
     missing_packages |-> <<>>]

Packages == {"boto3==1.26.0", "requests==2.28.0"}

\* what a unit's files hold besides function definitions and imports: class
\* names, decorator names (met only on a function definition), assigned
\* names, and the lines and counted statements outside the "def" lines
Shapes ==
    {[classes |-> <<>>, decorators |-> <<>>, variables_defined |-> <<>>,
      other_lines |-> 1, other_statements |-> 0],
     [classes |-> <<"Client">>, decorators |-> <<"wraps">>,
      variables_defined |-> <<"result">>, other_lines |-> 7, other_statements |-> 3]}

\* the ASTAnalysis _analyze_ast builds: the function names in visiting order
\* (duplicates kept), the other collections sorted and free of duplicates,
\* has_lambda_handler set by a function named lambda_handler; every function
\* definition is a line and a counted statement, and the files' base
\* complexities make the total at least 1
Summary(functions, imports, calls, complexity, shape) ==
    [functions             |-> functions,
     classes               |-> shape.classes,
     imports               |-> sorted(imports),
     decorators            |-> IF functions = <<>> THEN <<>> ELSE shape.decorators,
     cyclomatic_complexity |-> complexity,
     total_lines           |-> Len(functions) + shape.other_lines,
     total_statements      |-> Len(functions) + shape.other_statements,
     has_lambda_handler    |-> "lambda_handler" \in ToSet(functions),
     external_calls        |-> sorted(calls),
     variables_defined     |-> shape.variables_defined]

PlainShape == CHOOSE sh \in Shapes : sh.classes = <<>>

DefaultSummary == Summary(<<"lambda_handler">>, {"json"}, {}, 1, PlainShape)

Summaries(names, modules, calls, complexities, shapes) ==
    {Summary(fs, im, ca, cx, sh) :
        fs \in SeqsUpTo(names, MaxLen), im \in SUBSET modules, ca \in SUBSET calls,
        cx \in complexities, sh \in shapes}

\* --------------------------------------------------------- SourceAnalyzer

\* largest number of nodes of a parsed file drawn as an input
MaxNodes == 3

\* a node of a parsed file, the file's nodes being listed in the order a
\* depth-first traversal meets them: its class, its depth below the Module
\* node, the name it carries (a def's or class's name, an imported module,
\* an assigned name, a called name, a decorator's id) and the attribute of
\* an attribute call.  Nodes of other classes (Expr, Name, Pass, ...) change
\* no counter and are left out.
Node(kind, depth, name, attr) ==
    [kind |-> kind, depth |-> depth, name |-> name, attr |-> attr]

BlockKinds ==
    {"FunctionDef", "AsyncFunctionDef", "ClassDef", "If", "For", "While",
     "Try", "ExceptHandler"}

\* the node j hangs from: the last node before it that is one level up,
\* 0 for the Module node
ParentOf(nodes, j) ==
    IF nodes[j].depth = 1 THEN 0
    ELSE CHOOSE i \in 1..(j - 1) :
            /\ nodes[i].depth = nodes[j].depth - 1
            /\ \A k \in (i + 1)..(j - 1) : nodes[k].depth # nodes[j].depth - 1

\* what Python's grammar lets hang from what: statements hang from the
\* module or from a block, an except handler from a try, a decorator from a
\* function definition, and only expressions hang from an expression
CanHold(nodes, j) ==
    LET kind   == nodes[j].kind
        parent == IF ParentOf(nodes, j) = 0 THEN "Module"
                  ELSE nodes[ParentOf(nodes, j)].kind
    IN
    CASE kind = "ExceptHandler"    -> parent = "Try"
      [] kind = "Decorator"        -> parent = "FunctionDef"
      [] kind = "Call"             -> parent \in BlockKinds \cup {"Assign", "Return", "Call"}
                                                \cup {"Module"}
      [] OTHER                     -> parent \in BlockKinds \cup {"Module"}

\* ast.iter_child_nodes, in source order
Children(nodes, i) == {j \in DOMAIN nodes : ParentOf(nodes, j) = i}

RECURSIVE Ascending(_)
Ascending(S) ==
    IF S = {} THEN <<>>
    ELSE LET m == CHOOSE x \in S : \A y \in S : x <= y
         IN  <<m>> \o Ascending(S \ {m})

\* ast.walk(node): the node and every node beneath it
RECURSIVE walk(_, _)
walk(nodes, i) == {i} \cup UNION {walk(nodes, j) : j \in Children(nodes, i)}

BranchKinds == {"If", "While", "For", "ExceptHandler"}

\* mutant of count_branches: only the function's own children are counted
count_branches_children(nodes, i) ==
    Cardinality({j \in Children(nodes, i) : nodes[j].kind \in BranchKinds})

\* the loop over ast.walk(node) in visit_FunctionDef
count_branches(nodes, i) ==
    Cardinality({j \in walk(nodes, i) : nodes[j].kind \in BranchKinds})

_BUILTINS ==
    {"print", "len", "str", "int", "float", "list", "dict", "set", "tuple",
     "bool", "bytes", "isinstance", "issubclass", "type", "range",
     "enumerate", "zip", "map", "filter", "sorted", "reversed", "hasattr",
     "getattr", "setattr", "vars", "dir", "id", "hash", "repr", "open",
     "super", "staticmethod", "classmethod", "property", "next", "iter",
     "min", "max", "sum", "abs", "round", "any", "all"}

_SKIP_ATTRS ==
    {"append", "extend", "pop", "get", "items", "keys", "values", "update",
     "split", "join", "strip", "upper", "lower", "replace", "encode",
     "decode", "format", "read", "write", "close", "seek", "tell",
     "startswith", "endswith", "find", "count", "isoformat", "strftime",
     "strptime", "utcnow", "now", "dumps", "loads", "load", "dump"}

\* mutant of visit_Call: the attribute is not looked up in _SKIP_ATTRS
visit_Call_any_attr(n, acc) ==
    IF n.attr # ""
    THEN IF n.name # ""
         THEN [acc EXCEPT !.external_calls = @ \cup {n.name \o "." \o n.attr}]
         ELSE acc
    ELSE IF n.name # "" /\ n.name \notin _BUILTINS
         THEN [acc EXCEPT !.external_calls = @ \cup {n.name}]
         ELSE acc

\* visit_Call before its generic_visit.  A call through an attribute has
\* attr set, and name set when the attribute's base is a simple name; a
\* call of a bare name has only name set; any other call has neither.
visit_Call(n, acc) ==
    IF n.attr # ""
    THEN IF n.name # ""
         THEN IF n.attr \notin _SKIP_ATTRS
              THEN [acc EXCEPT !.external_calls = @ \cup {n.name \o "." \o n.attr}]
              ELSE acc
         ELSE acc
    ELSE IF n.name # "" /\ n.name \notin _BUILTINS
         THEN [acc EXCEPT !.external_calls = @ \cup {n.name}]
         ELSE acc

\* the visit_* method of the node's class, before its generic_visit
visit_node(nodes, i, acc) ==
    LET n == nodes[i] IN
    CASE n.kind = "FunctionDef" ->
           [acc EXCEPT
              !.functions = Append(@, n.name),
              !.has_lambda_handler = @ \/ n.name = "lambda_handler",
              !.decorators =
                  @ \o [k \in 1..Cardinality({j \in Children(nodes, i) :
                                                 nodes[j].kind = "Decorator"}) |->
                          nodes[Ascending({j \in Children(nodes, i) :
                                              nodes[j].kind = "Decorator"})[k]].name],
              !.cyclomatic_complexity = @ + count_branches(nodes, i)]
      [] n.kind = "ClassDef" -> [acc EXCEPT !.classes = Append(@, n.name)]
      [] n.kind = "Import" -> [acc EXCEPT !.imports = Append(@, n.name)]
      [] n.kind = "ImportFrom" ->
           IF n.name # "" THEN [acc EXCEPT !.imports = Append(@, n.name)] ELSE acc
      [] n.kind = "Call" -> visit_Call(n, acc)
      [] n.kind = "Assign" ->
           IF n.name # "" THEN [acc EXCEPT !.variables_defined = Append(@, n.name)]
           ELSE acc
      [] OTHER -> acc

\* NodeVisitor.visit on node i (0 is the Module node) and, through
\* generic_visit, on its children in source order
RECURSIVE visit(_, _, _), visit_each(_, _, _)
visit(nodes, i, acc) ==
    visit_each(nodes, Ascending(Children(nodes, i)),
               IF i = 0 THEN acc ELSE visit_node(nodes, i, acc))

visit_each(nodes, js, acc) ==
    IF js = <<>> THEN acc
    ELSE visit_each(nodes, Tail(js), visit(nodes, Head(js), acc))

\* the statement count of one file: ast.walk over the whole tree
count_statements(nodes) ==
    Cardinality({j \in DOMAIN nodes :
                    nodes[j].kind \in {"FunctionDef", "Assign", "Return", "If"}})

\* what one parsed file adds to the totals: the body of the try block
analyze_file(file) ==
    LET \* the per-file collections before the visit
        NewFile ==
            [functions |-> <<>>, classes |-> <<>>, imports |-> <<>>,
             decorators |-> <<>>, external_calls |-> {}, variables_defined |-> <<>>,
             cyclomatic_complexity |-> 1, has_lambda_handler |-> FALSE]
    IN
    [visited    |-> visit(file.nodes, 0, NewFile),
     lines      |-> file.lines,
     statements |-> count_statements(file.nodes)]

\* "Aggregate results" for one parsed file
aggregate(agg, file) ==
    LET a == analyze_file(file) IN
    [all_functions               |-> agg.all_functions \o a.visited.functions,
     all_classes                 |-> agg.all_classes \o a.visited.classes,
     all_imports                 |-> agg.all_imports \o a.visited.imports,
     all_decorators              |-> agg.all_decorators \o a.visited.decorators,
     all_external_calls          |-> agg.all_external_calls
                                       \cup a.visited.external_calls,
     all_variables_defined       |-> agg.all_variables_defined
                                       \o a.visited.variables_defined,
     total_cyclomatic_complexity |-> agg.total_cyclomatic_complexity
                                       + a.visited.cyclomatic_complexity,
     total_lines                 |-> agg.total_lines + a.lines,
     total_statements            |-> agg.total_statements + a.statements,
     has_lambda_handler          |-> agg.has_lambda_handler
                                       \/ a.visited.has_lambda_handler]

\* a call that returns a value, and a call that an exception leaves
Returns(value) == [exc |-> "none", value |-> value]
Raises(exc) == [exc |-> exc]

\* the loop over python_files: a file that does not parse (SyntaxError) or
\* cannot be opened or read (OSError) is skipped by the exception
\* handlers of the loop; a file whose bytes are not UTF-8 makes
\* f.read() raise UnicodeDecodeError, a ValueError that neither handler
\* names
RECURSIVE analyze_files(_, _)
analyze_files(files, agg) ==
    IF files = <<>> THEN Returns(agg)
    ELSE LET file == Head(files) IN
         CASE file.state = "ok" -> analyze_files(Tail(files), aggregate(agg, file))
           [] file.state \in {"syntax_error", "os_error"} -> analyze_files(Tail(files), agg)
           [] OTHER -> Raises("UnicodeDecodeError")

\* the ASTAnalysis built after the loop
ASTAnalysis(agg) ==
    [functions             |-> agg.all_functions,
     classes               |-> agg.all_classes,
     imports               |-> sorted(ToSet(agg.all_imports)),
     decorators            |-> sorted(ToSet(agg.all_decorators)),
     cyclomatic_complexity |-> agg.total_cyclomatic_complexity,
     total_lines           |-> agg.total_lines,
     total_statements      |-> agg.total_statements,
     has_lambda_handler    |-> agg.has_lambda_handler,
     external_calls        |-> sorted(agg.all_external_calls),
     variables_defined     |-> sorted(ToSet(agg.all_variables_defined))]

\* source_folder.glob('*.py'): nothing when the folder does not exist
python_files(unit) ==
    IF unit.source.present THEN unit.source.files ELSE <<>>

\* ASTComparator._analyze_ast
analyze_ast(unit) ==
    IF python_files(unit) = <<>> THEN Returns(NoneValue)
    ELSE LET \* the totals before the loop over the files
             NoFiles ==
                 [all_functions |-> <<>>, all_classes |-> <<>>, all_imports |-> <<>>,
                  all_decorators |-> <<>>, all_external_calls |-> {},
                  all_variables_defined |-> <<>>, total_cyclomatic_complexity |-> 0,
                  total_lines |-> 0, total_statements |-> 0, has_lambda_handler |-> FALSE]
             r == analyze_files(python_files(unit), NoFiles)
         IN
         IF r.exc = "none" THEN Returns(ASTAnalysis(r.value)) ELSE r

\* ---------------------------------------------------- DependencyExtractor

\* longest requirements.txt drawn as an input, in lines
MaxLines == 3

\* the lines a requirements.txt of the model is made of, without their line
\* ends: blank lines, comment lines, specifiers, some with white space
\* around them
ManifestLines ==
    {"", "  ", "# pinned", "  # pinned", "boto3==1.26.0", "requests==2.28.0",
     " requests==2.28.0 "}

\* str.strip()
strip(s) ==
    CASE s = "  "                 -> ""
      [] s = "  # pinned"         -> "# pinned"
      [] s = " requests==2.28.0 " -> "requests==2.28.0"
      [] OTHER                    -> s

\* str.startswith('#')
startswith_hash(s) == s = "# pinned"

\* [line.strip() for line in f if line.strip() and not line.startswith('#')]
requirement_lines(lines) ==
    LET kept == SelectSeq(lines, LAMBDA l : strip(l) # "" /\ ~startswith_hash(l))
    IN  [k \in DOMAIN kept |-> strip(kept[k])]

\* ASTComparator._get_requirements: the manifest is opened and read without
\* a handler
get_requirements(unit) ==
    CASE unit.manifest.state = "missing" -> Returns(Deps(<<>>))
      [] unit.manifest.state = "unreadable" -> Raises("OSError")
      [] OTHER -> Returns(Deps(requirement_lines(unit.manifest.lines)))

\* the loop of ATSComparator._get_requirements: strip, then test
ats_requirement_lines(lines) ==
    SelectSeq([k \in DOMAIN lines |-> strip(lines[k])],
              LAMBDA l : l # "" /\ ~startswith_hash(l))

\* ATSComparator._get_requirements: OSError leaves the list empty
ats_get_requirements(unit) ==
    CASE unit.manifest.state = "missing" ->
           [python_version |-> "unknown", total_packages |-> 0,
            packages |-> <<>>, missing_packages |-> <<>>]
      [] unit.manifest.state = "unreadable" -> Deps(<<>>)
      [] OTHER -> Deps(ats_requirement_lines(unit.manifest.lines))

\* ------------------------------------------------------ DescriptorReader

\* the values yaml.safe_load returns
YNull == [t |-> "null"]
YStr(s) == [t |-> "str", s |-> s]
YInt(i) == [t |-> "int", i |-> i]
YList(items) == [t |-> "list", items |-> items]
\* a mapping, as the sequence of its <<key, value>> items
YMap(entries) == [t |-> "map", entries |-> entries]

\* bool(value)
truthy(y) ==
    CASE y.t = "null" -> FALSE
      [] y.t = "str"  -> y.s # ""
      [] y.t = "int"  -> y.i # 0
      [] y.t = "list" -> y.items # <<>>
      [] OTHER        -> y.entries # <<>>

HasKey(y, key) == \E k \in DOMAIN y.entries : y.entries[k][1] = key

\* dict.get(key, default) on a mapping
get(y, key, default) ==
    IF HasKey(y, key)
    THEN y.entries[CHOOSE k \in DOMAIN y.entries : y.entries[k][1] = key][2]
    ELSE default

\* the Python value of a loaded YAML value: a dict as the set of its items
RECURSIVE py(_)
py(y) ==
    CASE y.t = "null" -> NoneValue
      [] y.t = "str"  -> y.s
      [] y.t = "int"  -> y.i
      [] y.t = "list" -> [k \in DOMAIN y.items |-> py(y.items[k])]
      [] OTHER        -> {<<y.entries[k][1], py(y.entries[k][2])>> :
                             k \in DOMAIN y.entries}

\* ASTComparator._load_template_config: None when template.yml is missing
\* or when opening or loading it raises
load_template_config(unit) ==
    IF unit.template.state = "loaded" THEN unit.template.value ELSE YNull

FunctionTypes == {YStr("AWS::Lambda::Function"), YStr("AWS::Serverless::Function")}

\* the body of the branch for the first function resource
config_of_resource(name, resource) ==
    LET props == get(resource, "Properties", YMap(<<>>)) IN
    IF props.t # "map" THEN Raises("AttributeError")
    ELSE
    LET env   == get(props, "Environment", YMap(<<>>))
        eph   == get(props, "EphemeralStorage", YInt(512))
        archs == get(props, "Architectures", YList(<<YStr("x86_64")>>))
    IN
    IF env.t # "map" THEN Raises("AttributeError")
    ELSE IF truthy(archs) /\ archs.t = "int" THEN Raises("TypeError")
    ELSE IF truthy(archs) /\ archs.t = "map" THEN Raises("KeyError")
    ELSE Returns(
      [name              |-> name,
       runtime           |-> py(get(props, "Runtime", YStr("unknown"))),
       memory            |-> py(get(props, "MemorySize", YInt(128))),
       timeout           |-> py(get(props, "Timeout", YInt(3))),
       handler           |-> py(get(props, "Handler",
                                    YStr("lambda_function.lambda_handler"))),
       description       |-> py(get(props, "Description", YStr(""))),
       environment_vars  |-> IF truthy(get(env, "Variables", YMap(<<>>)))
                             THEN py(get(env, "Variables", YMap(<<>>))) ELSE {},
       layers            |-> py(get(props, "Layers", YList(<<>>))),
       tracing_enabled   |-> get(props, "Tracing", YStr("PassThrough")) = YStr("Active"),
       ephemeral_storage |-> IF eph.t = "map" THEN py(get(eph, "Size", YInt(512)))
                             ELSE py(eph),
       architecture      |-> CASE ~truthy(archs)  -> "x86_64"
                               \* [0] of a str is its first character
                               [] archs.t = "str" /\ archs.s = "arm64"  -> "a"
                               [] archs.t = "str" /\ archs.s = "x86_64" -> "x"
                               [] archs.t = "str" -> archs.s
                               [] OTHER           -> py(archs.items[1])])

\* mutant of first_function_config: the loop has no break, so the last
\* function resource determines the config
RECURSIVE last_function_config(_, _)
last_function_config(name, entries) ==
    IF entries = <<>> THEN Returns(DefaultConfig(name))
    ELSE LET resource == entries[Len(entries)][2] IN
         IF get(resource, "Type", YNull) \in FunctionTypes
         THEN config_of_resource(name, resource)
         ELSE last_function_config(name, SubSeq(entries, 1, Len(entries) - 1))

\* the loop over resources.items() up to its break
RECURSIVE first_function_config(_, _)
first_function_config(name, entries) ==
    IF entries = <<>> THEN Returns(DefaultConfig(name))
    ELSE LET resource == Head(entries)[2] IN
         IF resource.t # "map" THEN Raises("AttributeError")
         ELSE IF get(resource, "Type", YNull) \in FunctionTypes
         THEN config_of_resource(name, resource)
         ELSE first_function_config(name, Tail(entries))

\* ASTComparator._extract_function_config
extract_function_config(name, unit) ==
    LET template == load_template_config(unit) IN
    IF ~truthy(template) THEN Returns(DefaultConfig(name))
    ELSE IF template.t # "map" THEN Raises("AttributeError")
    ELSE LET resources == get(template, "Resources", YMap(<<>>)) IN
         IF resources.t # "map" THEN Raises("AttributeError")
         ELSE first_function_config(name, resources.entries)

\* the loop over one resource's Events
RECURSIVE event_types(_)
event_types(entries) ==
    IF entries = <<>> THEN Returns(<<>>)
    ELSE LET event == Head(entries)[2] IN
         IF event.t # "map" THEN Raises("AttributeError")
         ELSE LET rest == event_types(Tail(entries))
                  evt_type == get(event, "Type", YStr(""))
              IN  IF rest.exc # "none" THEN rest
                  ELSE IF truthy(evt_type)
                  THEN Returns(<<py(evt_type)>> \o rest.value)
                  ELSE rest

\* the loop over resources.items() of _get_event_sources
RECURSIVE resource_events(_)
resource_events(entries) ==
    IF entries = <<>> THEN Returns(<<>>)
    ELSE LET resource == Head(entries)[2] IN
         IF resource.t # "map" THEN Raises("AttributeError")
         ELSE LET props == get(resource, "Properties", YMap(<<>>)) IN
         IF props.t # "map" THEN Raises("AttributeError")
         ELSE LET events == get(props, "Events", YMap(<<>>)) IN
         IF events.t # "map" THEN Raises("AttributeError")
         ELSE LET here == event_types(events.entries) IN
         IF here.exc # "none" THEN here
         ELSE LET rest == resource_events(Tail(entries)) IN
         IF rest.exc # "none" THEN rest
         ELSE Returns(here.value \o rest.value)

\* mutant of with_fallback: the label is added to every list
with_fallback_always(sources) == sources \o <<"Direct Invocation">>

\* "if not sources: sources = ['Direct Invocation']"
with_fallback(sources) ==
    IF sources = <<>> THEN <<"Direct Invocation">> ELSE sources

\* ASTComparator._get_event_sources
get_event_sources(unit) ==
    LET template == load_template_config(unit) IN
    IF ~truthy(template) THEN Returns(with_fallback(<<>>))
    ELSE IF template.t # "map" THEN Raises("AttributeError")
    ELSE LET resources == get(template, "Resources", YMap(<<>>)) IN
         IF resources.t # "map" THEN Raises("AttributeError")
         ELSE LET found == resource_events(resources.entries) IN
              IF found.exc # "none" THEN found
              ELSE Returns(with_fallback(found.value))

\* -------------------------------------------------- the unit directories

\* a unit directory: whether it is a directory at all, its template.yml
\* ("missing", "invalid" when it cannot be opened or loaded, or "loaded"
\* with the loaded value), the requirements.txt of its source folder
\* ("missing", "unreadable", or "ok" with its lines) and the *.py files of
\* its source folder in the order glob lists them
Unit(name, template, manifest, source) ==
    [name |-> name, exists |-> TRUE, template |-> template,
     manifest |-> manifest, source |-> source]

NoTemplate == [state |-> "missing"]
InvalidTemplate == [state |-> "invalid"]
Template(value) == [state |-> "loaded", value |-> value]

NoManifest == [state |-> "missing"]
UnreadableManifest == [state |-> "unreadable"]
Manifest(lines) == [state |-> "ok", lines |-> lines]

NoSourceFolder == [present |-> FALSE]
SourceFolder(files) == [present |-> TRUE, files |-> files]

\* a *.py file that parses, one that does not, one that cannot be opened,
\* and one whose bytes are not UTF-8
SourceFile(nodes, lines) == [state |-> "ok", nodes |-> nodes, lines |-> lines]
BadSyntaxFile == [state |-> "syntax_error"]
UnopenableFile == [state |-> "os_error"]
UndecodableFile == [state |-> "undecodable"]

\* "def lambda_handler(event, context):\n    return 'Hello'"
HandlerFile ==
    SourceFile(<<Node("FunctionDef", 1, "lambda_handler", ""),
                 Node("Return", 2, "", "")>>, 2)

\* a module with an import, a class and a decorated function that branches,
\* assigns the result of a client call and calls a built-in
HelperFile ==
    SourceFile(<<Node("Import", 1, "boto3", ""),
                 Node("ClassDef", 1, "Client", ""),
                 Node("FunctionDef", 1, "helper", ""),
                 Node("Decorator", 2, "wraps", ""),
                 Node("If", 2, "", ""),
                 Node("Assign", 3, "result", ""),
                 Node("Call", 4, "boto3", "client"),
                 Node("Call", 3, "len", ""),
                 Node("Return", 2, "", "")>>, 9)

\* a directory that holds nothing the comparator reads, and one with a
\* handler file only
EmptyUnit(name) == Unit(name, NoTemplate, NoManifest, NoSourceFolder)
PlainUnit(name) == Unit(name, NoTemplate, NoManifest, SourceFolder(<<HandlerFile>>))

\* a path that is not a directory
MissingUnit(name) == [EmptyUnit(name) EXCEPT !.exists = FALSE]

\* the node sequences of at most n nodes, of the given classes and names,
\* that a parsed file can have
RECURSIVE Trees(_, _, _)
Trees(kinds, names, n) ==
    IF n = 0 THEN {<<>>}
    ELSE LET shorter == Trees(kinds, names, n - 1)
             grown == {Append(t, Node(k, d, nm, "")) :
                          t \in {s \in shorter : Len(s) = n - 1},
                          k \in kinds, nm \in names, d \in 1..n}
         IN  shorter \cup
             {t \in grown :
                /\ t[n].depth <= (IF n = 1 THEN 0 ELSE t[n - 1].depth) + 1
                /\ CanHold(t, n)}

\* the comparison record before compare() has run: nothing raised, nothing
\* written, no pair of a batch processed
NoResult ==
    /\ raised = "none"
    /\ returned = NoneValue
    /\ event_sources1 = <<>>
    /\ event_sources2 = <<>>
    /\ steps = <<>>
    /\ created = {}
    /\ idx = 0
    /\ console = <<>>
    /\ pc = "start"
    /\ comparator = "none"
    /\ config_diffs = <<>>
    /\ dep_diff = NoneValue
    /\ metrics1 = NoneValue
    /\ metrics2 = NoneValue
    /\ metrics_comp = NoneValue
    /\ scores = <<>>
    /\ ast_cmp = NoneValue

\* the extracted values are given: the directories play no part
Extracted ==
    /\ unit1 = EmptyUnit("myTestFunction2")
    /\ unit2 = EmptyUnit("myTestFunction5")
    /\ comparisons = <<>>
    /\ world = NoneValue

DefaultConfigs ==
    /\ config1 = DefaultConfig("myTestFunction2")
    /\ config2 = DefaultConfig("myTestFunction5")

DefaultDeps ==
    /\ deps1 = Deps(<<>>)
    /\ deps2 = Deps(<<>>)

DefaultAsts ==
    /\ ast1 = DefaultSummary
    /\ ast2 = DefaultSummary

\* two units that differ in their function lists, imports and external calls,
\* or in their requirements.txt
InitDiff ==
    /\ NoResult
    /\ Extracted
    /\ DefaultConfigs
    /\ \/ /\ DefaultDeps
          /\ ast1 \in Summaries({"f", "g", "h"}, {"boto3", "json"}, {"boto3.client"},
                                {1}, {PlainShape})
          /\ ast2 \in Summaries({"f", "g", "h"}, {"boto3", "json"}, {"boto3.client"},
                                {1}, {PlainShape})
       \/ /\ DefaultAsts
          /\ deps1 \in {Deps(p) : p \in SeqsUpTo(Packages, MaxLen)}
          /\ deps2 \in {Deps(p) : p \in SeqsUpTo(Packages, MaxLen)}

\* two units with any structural summaries
InitScore ==
    /\ NoResult
    /\ Extracted
    /\ DefaultConfigs
    /\ DefaultDeps
    /\ ast1 \in Summaries({"f", "lambda_handler"}, {"boto3", "json"},
                          {"boto3.client", "helper"}, {1, 3}, {PlainShape})
    /\ ast2 \in Summaries({"f", "lambda_handler"}, {"boto3", "json"},
                          {"boto3.client", "helper"}, {1, 3}, {PlainShape})

\* two units whose source is the same
InitSelf ==
    /\ NoResult
    /\ Extracted
    /\ DefaultConfigs
    /\ DefaultDeps
    /\ ast1 \in Summaries({"f", "g", "lambda_handler"}, {"boto3", "json"},
                          {"boto3.client"}, {1, 3}, Shapes)
    /\ ast2 = ast1

\* two units of any cyclomatic complexity
InitComplexity ==
    /\ NoResult
    /\ Extracted
    /\ DefaultConfigs
    /\ DefaultDeps
    /\ \E c1, c2 \in 1..MaxComplexity :
       \E f1, f2 \in {<<>>, <<"lambda_handler">>} :
          /\ ast1 = Summary(f1, {"json"}, {}, c1, PlainShape)
          /\ ast2 = Summary(f2, {"json"}, {}, c2, PlainShape)

\* two units of any memory size and package count
InitMetrics ==
    /\ NoResult
    /\ Extracted
    /\ DefaultAsts
    /\ \E m1, m2 \in MemValues :
          /\ config1 = [DefaultConfig("myTestFunction2") EXCEPT !.memory = m1]
          /\ config2 = [DefaultConfig("myTestFunction5") EXCEPT !.memory = m2]
    /\ deps1 \in {Deps(p) : p \in SeqsUpTo(Packages, MaxLen)}
    /\ deps2 \in {Deps(p) : p \in SeqsUpTo(Packages, MaxLen)}

\* two units of any configuration
InitConfig ==
    /\ NoResult
    /\ Extracted
    /\ DefaultDeps
    /\ DefaultAsts
    /\ config1 \in {DefaultConfig("myTestFunction2"), OtherConfig}
    /\ config2 \in Configs

\* nothing has been extracted yet
NotExtracted ==
    /\ config1 = NoneValue
    /\ config2 = NoneValue
    /\ deps1 = NoneValue
    /\ deps2 = NoneValue
    /\ ast1 = NoneValue
    /\ ast2 = NoneValue
    /\ comparisons = <<>>
    /\ world = NoneValue

\* a unit whose source is one parsed file of any shape over the node
\* classes that bear on the complexity of a file
InitAst ==
    /\ NoResult
    /\ NotExtracted
    /\ \E t \in Trees({"FunctionDef", "AsyncFunctionDef", "If", "For", "While",
                      "Try", "ExceptHandler"}, {"f"}, MaxNodes) :
          unit1 = Unit("myTestFunction2", NoTemplate, NoManifest,
                       SourceFolder(<<SourceFile(t, Len(t) + 1)>>))
    /\ unit2 = PlainUnit("myTestFunction5")

\* most call expressions drawn for one file
MaxCalls == 2

\* a unit whose one file holds at most MaxCalls call expressions, side by
\* side or one inside the other: of a built-in, of other bare names,
\* through an attribute of a simple name, through an attribute of
\* something else, and of something that has no name at all
InitCalls ==
    /\ NoResult
    /\ NotExtracted
    /\ \E t \in SeqsUpTo({Node("Call", d, nm, at) :
                              d \in 1..MaxCalls,
                              nm \in {"", "len", "boto3", "helper"},
                              at \in {"", "get", "client"}}, MaxCalls) :
          /\ \A j \in DOMAIN t :
                t[j].depth <= (IF j = 1 THEN 0 ELSE t[j - 1].depth) + 1
          /\ unit1 = Unit("myTestFunction2", NoTemplate, NoManifest,
                          SourceFolder(<<SourceFile(t, Len(t) + 1)>>))
    /\ unit2 = PlainUnit("myTestFunction5")

\* two units of which one has no requirements.txt and the other has any
\* of at most MaxLines lines
InitManifest ==
    /\ NoResult
    /\ NotExtracted
    /\ \E m \in {Manifest(l) : l \in SeqsUpTo(ManifestLines, MaxLines)} :
          \/ /\ unit1 = PlainUnit("myTestFunction2")
             /\ unit2 = [PlainUnit("myTestFunction5") EXCEPT !.manifest = m]
          \/ /\ unit1 = [PlainUnit("myTestFunction2") EXCEPT !.manifest = m]
             /\ unit2 = PlainUnit("myTestFunction5")

\* most *.py files drawn for one source folder
MaxFiles == 3

\* a unit whose source folder is missing, or holds any files, good and bad
InitFiles ==
    /\ NoResult
    /\ NotExtracted
    /\ \E src \in {NoSourceFolder} \cup
                  {SourceFolder(fs) :
                     fs \in SeqsUpTo({HandlerFile, HelperFile, BadSyntaxFile,
                                      UnopenableFile, UndecodableFile}, MaxFiles)} :
          unit1 = Unit("myTestFunction2", NoTemplate, NoManifest, src)
    /\ unit2 = PlainUnit("myTestFunction5")

\* most triggers drawn under the Events of one resource
MaxEvents == 2

\* a trigger of the given type; the type "" stands for "Type: ''"
Event(type) == YMap(<<<<"Type", YStr(type)>>>>)

\* the Events mapping that declares the given triggers, in order
Events(events) ==
    YMap([k \in DOMAIN events |->
            <<<<"First", "Second", "Third", "Fourth">>[k], events[k]>>])

\* a resource of the given type with the given Properties entries
Resource(type, properties) ==
    YMap(<<<<"Type", YStr(type)>>, <<"Properties", YMap(properties)>>>>)

\* the Properties of the test fixture's template.yml
FixtureProperties ==
    <<<<"Runtime", YStr("python3.12")>>, <<"MemorySize", YInt(128)>>,
      <<"Timeout", YInt(30)>>,
      <<"Handler", YStr("lambda_function.lambda_handler")>>>>

\* a template with the given resources, in order
Resources(resources) == Template(YMap(<<<<"Resources", YMap(resources)>>>>))

\* a unit with no template, an unloadable one, or one that declares any
\* triggers: its first function has no Events entry or one of at most
\* MaxEvents triggers (of a type, of the type '', or without a Type key),
\* and the template may declare another resource after it
InitEvents ==
    LET EventsEntries ==
            {<<>>} \cup
            {<<<<"Events", Events(es)>>>> :
                es \in SeqsUpTo({Event("Api"), Event("S3"), Event(""), YMap(<<>>)},
                                MaxEvents)}
        OtherResources ==
            {<<>>,
             <<<<"Bucket", Resource("AWS::S3::Bucket", <<>>)>>>>,
             <<<<"Second", Resource("AWS::Lambda::Function",
                                    <<<<"Events", Events(<<Event("Schedule")>>)>>>>)>>>>,
             <<<<"Second", Resource("AWS::Lambda::Function",
                                    <<<<"Events", Events(<<Event("")>>)>>>>)>>>>}
    IN
    /\ NoResult
    /\ NotExtracted
    /\ \E t \in {NoTemplate, InvalidTemplate, Template(YNull), Template(YMap(<<>>))}
                \cup {Resources(<<<<"Function",
                                    Resource("AWS::Serverless::Function",
                                             FixtureProperties \o ev)>>>> \o other) :
                         ev \in EventsEntries, other \in OtherResources} :
          unit1 = [PlainUnit("myTestFunction2") EXCEPT !.template = t]
    /\ unit2 = PlainUnit("myTestFunction5")

\* most resources drawn for one template
MaxResources == 3

\* a unit with no template, an unloadable one, an empty one, one without
\* a Resources key, or one that declares at most MaxResources resources:
\* buckets, resources without a Type, and functions of either type with
\* the fixture's Properties, with other Properties, or with none
InitTemplates ==
    LET Declared ==
            {Resource("AWS::S3::Bucket", <<>>),
             YMap(<<>>),
             Resource("AWS::Serverless::Function", FixtureProperties),
             Resource("AWS::Lambda::Function",
                      <<<<"Runtime", YStr("python3.14")>>,
                        <<"MemorySize", YInt(256)>>,
                        <<"Description", YStr("second")>>,
                        <<"Environment",
                          YMap(<<<<"Variables",
                                   YMap(<<<<"STAGE", YStr("prod")>>>>)>>>>)>>,
                        <<"Tracing", YStr("Active")>>,
                        <<"EphemeralStorage", YMap(<<<<"Size", YInt(1024)>>>>)>>,
                        <<"Architectures", YList(<<YStr("arm64")>>)>>>>),
             YMap(<<<<"Type", YStr("AWS::Lambda::Function")>>>>)}
        Named(resources) ==
            [k \in DOMAIN resources |->
                <<<<"First", "Second", "Third", "Fourth">>[k], resources[k]>>]
    IN
    /\ NoResult
    /\ NotExtracted
    /\ \E t \in {NoTemplate, InvalidTemplate, Template(YNull), Template(YMap(<<>>))}
                \cup {Resources(Named(rs)) : rs \in SeqsUpTo(Declared, MaxResources)} :
          unit1 = [PlainUnit("myTestFunction2") EXCEPT !.template = t]
    /\ unit2 = PlainUnit("myTestFunction5")

\* a template whose only resource is the given value
OneResource(resource) == Resources(<<<<"Function", resource>>>>)

\* a function resource whose Properties is the given value
WithProperties(value) ==
    YMap(<<<<"Type", YStr("AWS::Serverless::Function")>>, <<"Properties", value>>>>)

\* two directories that exist, the optional inputs of the first in any
\* state.  The template.yml states are: missing, unloadable, empty, well
\* formed, and of an unexpected shape at the top, at Resources, at a
\* resource, at its Properties, at Events or Environment, or at a trigger
InitShapes ==
    LET \* what a YAML file can hold where the comparator expects a mapping
        Unexpected == {YNull, YStr("text"), YList(<<>>)}
        ShapeTemplates ==
        {NoTemplate, InvalidTemplate, Template(YNull), Template(YStr("text")),
         Template(YList(<<YStr("Resources")>>)),
         OneResource(WithProperties(YMap(FixtureProperties))),
         OneResource(WithProperties(YMap(
             <<<<"Environment", YMap(<<<<"Variables", YNull>>>>)>>,
               <<"Events", Events(<<Event("Api")>>)>>>>)))}
        \cup {Template(YMap(<<<<"Resources", v>>>>)) : v \in Unexpected}
        \cup {OneResource(v) : v \in Unexpected}
        \cup {OneResource(WithProperties(v)) : v \in Unexpected}
        \cup {OneResource(WithProperties(YMap(<<<<key, v>>>>))) :
                 key \in {"Events", "Environment"}, v \in Unexpected}
        \cup {OneResource(WithProperties(YMap(<<<<"Events", Events(<<v>>)>>>>))) :
                 v \in Unexpected}
    IN
    /\ NoResult
    /\ NotExtracted
    /\ \E t \in ShapeTemplates :
       \E m \in {NoManifest, UnreadableManifest, Manifest(<<"boto3==1.26.0">>)} :
       \E src \in {NoSourceFolder, SourceFolder(<<HandlerFile>>),
                    SourceFolder(<<BadSyntaxFile, HandlerFile>>)} :
          \* requirements.txt lies in the source folder
          /\ src = NoSourceFolder => m = NoManifest
          /\ unit1 = Unit("myTestFunction2", t, m, src)
    /\ unit2 = PlainUnit("myTestFunction5")

\* the states of one unit for the degraded comparison: a template or none, a
\* manifest or none, and a source folder that is missing, holds no *.py
\* file, or holds one
PartialUnits(name) ==
    {Unit(name, t, m, src) :
        t \in {NoTemplate,
               OneResource(WithProperties(YMap(FixtureProperties))),
               OneResource(WithProperties(YMap(
                   <<<<"MemorySize", YInt(256)>>,
                     <<"Events", Events(<<Event("Api")>>)>>>>)))},
        m \in {NoManifest, Manifest(<<"boto3==1.26.0">>),
               Manifest(<<"boto3==1.26.0", "requests==2.28.0">>)},
        src \in {SourceFolder(<<>>), SourceFolder(<<HandlerFile>>),
                 SourceFolder(<<HelperFile>>)}}
    \cup {Unit(name, t, NoManifest, NoSourceFolder) :
             t \in {NoTemplate, OneResource(WithProperties(YMap(FixtureProperties)))}}

\* two units, each with or without anything to analyse
InitPartial ==
    /\ NoResult
    /\ NotExtracted
    /\ unit1 \in PartialUnits("myTestFunction2")
    /\ unit2 \in PartialUnits("myTestFunction5")

\* a directory whose template.yml is the line "Resources:"
BrokenUnit(name) ==
    [PlainUnit(name) EXCEPT !.template = Template(YMap(<<<<"Resources", YNull>>>>))]

\* one driver call on two paths, each a directory that is missing, or in
\* any of the states of PartialUnits, or with a template that makes the
\* extraction raise
InitDriver ==
    LET DriverUnits(name) ==
            {MissingUnit(name), BrokenUnit(name)} \cup PartialUnits(name)
    IN
    /\ NoResult
    /\ NotExtracted
    /\ unit1 \in DriverUnits("myTestFunction2")
    /\ unit2 \in DriverUnits("myTestFunction5")

\* most pairs listed in a batch file
MaxPairs == 2

\* a batch file with any list of at most MaxPairs pairs; among the
\* function names it lists, "" stands for a key that is absent or empty
InitBatch ==
    LET BatchNames == {"", "myTestFunction2", "missingFunction", "brokenFunction"}
    IN
    /\ NoResult
    /\ config1 = NoneValue /\ config2 = NoneValue
    /\ deps1 = NoneValue /\ deps2 = NoneValue
    /\ ast1 = NoneValue /\ ast2 = NoneValue
    /\ unit1 = EmptyUnit("myTestFunction2")
    /\ unit2 = EmptyUnit("myTestFunction5")
    /\ comparisons \in SeqsUpTo([function1 : BatchNames, function2 : BatchNames],
                                 MaxPairs)
    /\ world = NoneValue

\* ----------------------------------------------------------- the actions

\* ASTComparator.compare() on the extracted inputs
Compare ==
    /\ pc = "start"
    /\ config_diffs' = compare_configs(config1, config2)
    /\ dep_diff' = compare_dependencies(deps1, deps2)
    /\ metrics1' = calculate_metrics(config1, deps1)
    /\ metrics2' = calculate_metrics(config2, deps2)
    /\ metrics_comp' = compare_metrics(calculate_metrics(config1, deps1),
                                       calculate_metrics(config2, deps2))
    /\ scores' = IF ast1 = NoneValue \/ ast2 = NoneValue
                 THEN <<>> ELSE similarity_scores(ast1, ast2)
    /\ ast_cmp' = compare_ast_analysis(ast1, ast2)
    /\ comparator' = "ast"
    /\ pc' = "done"
    /\ UNCHANGED inputs
    /\ UNCHANGED <<units, event_sources1, event_sources2, raised, driver, tool>>

\* two units of any function lists, imports, calls, complexity and size
InitSwap ==
    /\ NoResult
    /\ Extracted
    /\ DefaultConfigs
    /\ DefaultDeps
    /\ ast1 \in Summaries({"f", "lambda_handler"}, {"json"}, {"helper"}, {1, 3}, Shapes)
    /\ ast2 \in Summaries({"f", "lambda_handler"}, {"json"}, {"helper"}, {1, 3},
                          {PlainShape})

\* a second ASTComparator, constructed with the two paths exchanged, runs
\* compare(): the first comparator's structural section is kept aside in
\* comparisons
CompareSwapped ==
    /\ pc = "done"
    /\ comparator = "ast"
    /\ comparisons' = <<ast_cmp>>
    /\ config1' = config2 /\ config2' = config1
    /\ deps1' = deps2 /\ deps2' = deps1
    /\ ast1' = ast2 /\ ast2' = ast1
    /\ config_diffs' = compare_configs(config2, config1)
    /\ dep_diff' = compare_dependencies(deps2, deps1)
    /\ metrics1' = calculate_metrics(config2, deps2)
    /\ metrics2' = calculate_metrics(config1, deps1)
    /\ metrics_comp' = compare_metrics(calculate_metrics(config2, deps2),
                                       calculate_metrics(config1, deps1))
    /\ scores' = IF ast1 = NoneValue \/ ast2 = NoneValue
                 THEN <<>> ELSE similarity_scores(ast2, ast1)
    /\ ast_cmp' = compare_ast_analysis(ast2, ast1)
    /\ pc' = "swapped"
    /\ UNCHANGED <<comparator, units, event_sources1, event_sources2, raised, steps,
                   created, idx, console, tool>>

\* ATSComparator.compare(): its configuration and dependency sections
ATSCompare ==
    /\ pc = "start"
    /\ config_diffs' = ats_compare_configs(config1, config2)
    /\ dep_diff' = ats_compare_dependencies(deps1, deps2)
    /\ comparator' = "ats"
    /\ pc' = "done"
    /\ UNCHANGED <<metrics1, metrics2, metrics_comp, scores, ast_cmp>>
    /\ UNCHANGED inputs
    /\ UNCHANGED <<units, event_sources1, event_sources2, raised, driver, tool>>

\* the calls compare() makes to the extractors, in its order
extractions(u1, u2) ==
    <<extract_function_config(u1.name, u1), extract_function_config(u2.name, u2),
      get_requirements(u1), get_requirements(u2),
      analyze_ast(u1), analyze_ast(u2),
      get_event_sources(u1), get_event_sources(u2)>>

\* the exception that leaves compare(): the one of the first call that
\* raises, "none" when every call returns
first_exception(calls) ==
    IF \A k \in DOMAIN calls : calls[k].exc = "none" THEN "none"
    ELSE calls[CHOOSE k \in DOMAIN calls :
                  /\ calls[k].exc # "none"
                  /\ \A j \in 1..(k - 1) : calls[j].exc = "none"].exc

\* ASTComparator.compare() on the two unit directories of a comparator that
\* was constructed: every extraction, then the comparison record
CompareUnits ==
    /\ pc = "start"
    /\ unit1.exists /\ unit2.exists
    /\ LET calls == extractions(unit1, unit2) IN
       IF first_exception(calls) # "none"
       THEN /\ raised' = first_exception(calls)
            /\ pc' = "raised"
            /\ UNCHANGED <<comparator, inputs, config_diffs, dep_diff, metrics1,
                           metrics2, metrics_comp, scores, ast_cmp,
                           event_sources1, event_sources2>>
       ELSE /\ config1' = calls[1].value
            /\ config2' = calls[2].value
            /\ config_diffs' = compare_configs(calls[1].value, calls[2].value)
            /\ deps1' = calls[3].value
            /\ deps2' = calls[4].value
            /\ dep_diff' = compare_dependencies(calls[3].value, calls[4].value)
            /\ metrics1' = calculate_metrics(calls[1].value, calls[3].value)
            /\ metrics2' = calculate_metrics(calls[2].value, calls[4].value)
            /\ metrics_comp' =
                  compare_metrics(calculate_metrics(calls[1].value, calls[3].value),
                                  calculate_metrics(calls[2].value, calls[4].value))
            /\ ast1' = calls[5].value
            /\ ast2' = calls[6].value
            /\ scores' = IF calls[5].value = NoneValue \/ calls[6].value = NoneValue
                         THEN <<>>
                         ELSE similarity_scores(calls[5].value, calls[6].value)
            /\ ast_cmp' = compare_ast_analysis(calls[5].value, calls[6].value)
            /\ event_sources1' = calls[7].value
            /\ event_sources2' = calls[8].value
            /\ comparator' = "ast"
            /\ pc' = "done"
            /\ UNCHANGED raised
    /\ UNCHANGED <<units, driver, tool>>


\* ATSComparator.compare() on the two unit directories: its dependency
\* section
ATSCompareUnits ==
    /\ pc = "start"
    /\ unit1.exists /\ unit2.exists
    /\ deps1' = ats_get_requirements(unit1)
    /\ deps2' = ats_get_requirements(unit2)
    /\ dep_diff' = ats_compare_dependencies(ats_get_requirements(unit1),
                                            ats_get_requirements(unit2))
    /\ comparator' = "ats"
    /\ pc' = "done"
    /\ UNCHANGED <<config1, config2, ast1, ast2, config_diffs, metrics1, metrics2,
                   metrics_comp, scores, ast_cmp, event_sources1, event_sources2,
                   raised, units, driver, tool>>

\* ------------------------------------------------------------ the drivers

\* what a driver call leaves behind: the exception that left it ("none" when
\* it returned), the steps it took, the paths it created, what it printed
Outcome(exc, taken, paths, printed) ==
    [exc |-> exc, steps |-> taken, created |-> paths, console |-> printed]

\* a path in the output directory: the directory itself, or a report of the
\* given suffix for two units (its timestamp is left out)
OutputDir == [kind |-> "dir", func1 |-> "", func2 |-> ""]
OutputFile(suffix, u1, u2) == [kind |-> suffix, func1 |-> u1.name, func2 |-> u2.name]

\* a line on the console: its text and the pair it is about (0 for none)
Message(msg, pair) == [msg |-> msg, pair |-> pair]

\* the exception classes that "except ValueError" catches
ValueErrors == {"ValueError", "UnicodeDecodeError"}

\* mutant of compare_functions_ast: the output directory is prepared before
\* the comparator is constructed
compare_functions_ast_prepare_first(u1, u2) ==
    IF ~u1.exists \/ ~u2.exists
    THEN Outcome("ValueError", <<"mkdir", "construct">>, {OutputDir},
                 <<Message("[ERR] Error", 0)>>)
    ELSE Outcome("none", <<"mkdir", "construct">>, {OutputDir}, <<>>)

\* compare_functions_ast(func1, func2, output_dir): construct the comparator,
\* prepare the output file, generate_report (compare(), write the text
\* report), generate_json_report (compare() again, write the JSON report);
\* every exception is printed and raised again
compare_functions_ast(u1, u2) ==
    IF ~u1.exists \/ ~u2.exists
    THEN Outcome("ValueError", <<"construct">>, {}, <<Message("[ERR] Error", 0)>>)
    ELSE LET exc == first_exception(extractions(u1, u2)) IN
         IF exc # "none"
         THEN Outcome(exc, <<"construct", "mkdir", "extract">>, {OutputDir},
                      <<Message(IF exc \in ValueErrors THEN "[ERR] Error"
                                ELSE "[ERR] Unexpected error", 0)>>)
         ELSE Outcome("none",
                      <<"construct", "mkdir", "extract", "write_report",
                        "extract", "write_json">>,
                      {OutputDir, OutputFile("txt", u1, u2), OutputFile("json", u1, u2)},
                      <<Message("[OK] Report saved", 0),
                        Message("[OK] JSON report saved", 0)>>)

\* compare_functions(func1, func2, output_dir) of compare_lambda_functions.py:
\* validate the directories, collect the files, prepare the output file,
\* write the report and its PDF; its failures are ValueErrors
compare_functions(u1, u2) ==
    IF ~u1.exists \/ ~u2.exists
    THEN Outcome("ValueError", <<"validate">>, {}, <<>>)
    ELSE Outcome("none", <<"validate", "collect", "mkdir", "write_report", "write_pdf">>,
                 {OutputDir, OutputFile("txt", u1, u2), OutputFile("pdf", u1, u2)},
                 <<Message("Report saved", 0), Message("PDF report saved", 0)>>)

\* one call of compare_functions_ast on the two unit directories
CompareFunctionsAst ==
    /\ pc = "start"
    /\ LET out == compare_functions_ast(unit1, unit2) IN
       /\ raised' = out.exc
       /\ steps' = out.steps
       /\ created' = out.created
       /\ console' = out.console
       /\ pc' = IF out.exc = "none" THEN "written" ELSE "raised"
    /\ comparator' = "ast"
    /\ UNCHANGED <<inputs, config_diffs, dep_diff, metrics1, metrics2, metrics_comp,
                   scores, ast_cmp, event_sources1, event_sources2, units,
                   comparisons, idx>>
    /\ UNCHANGED tool


\* the directory a function name of the batch file leads to
Disk(name) ==
    CASE name = "missingFunction" -> MissingUnit(name)
      [] name = "brokenFunction" -> BrokenUnit(name)
      [] OTHER -> PlainUnit(name)

\* mutant of caught: the loop has no handler
caught_nothing(batch, exc) == FALSE

\* whether the handler around the driver call catches the exception:
\* "except Exception" in compare_from_config_ast, "except ValueError" in
\* compare_from_config
caught(batch, exc) == batch = "ast" \/ exc \in ValueErrors

\* the start of compare_from_config_ast ("ast") or compare_from_config
\* ("plain") with the loaded list of comparisons: an empty list ends the
\* batch at once
BatchStart ==
    /\ pc = "start"
    /\ \E batch \in {"ast", "plain"} : comparator' = batch
    /\ IF comparisons = <<>>
       THEN /\ console' = <<Message("No comparisons found in config file", 0)>>
            /\ pc' = "returned"
       ELSE /\ console' = <<Message("Starting", 0)>>
            /\ pc' = "loop"
    /\ UNCHANGED <<inputs, config_diffs, dep_diff, metrics1, metrics2, metrics_comp,
                   scores, ast_cmp, event_sources1, event_sources2, units, raised,
                   steps, created, comparisons, idx>>
    /\ UNCHANGED tool

\* one turn of the loop: the pair after the idx pairs already handled.  The
\* name "" stands for a function1/function2 key that is absent or empty.
BatchPair ==
    /\ pc = "loop"
    /\ idx < Len(comparisons)
    /\ idx' = idx + 1
    /\ LET comp == comparisons[idx + 1]
           \* the driver the batch calls for the pair
           out  == IF comparator = "ast"
                   THEN compare_functions_ast(Disk(comp.function1),
                                              Disk(comp.function2))
                   ELSE compare_functions(Disk(comp.function1),
                                          Disk(comp.function2))
       IN  IF comp.function1 = "" \/ comp.function2 = ""
           THEN /\ console' = Append(console, Message("Skipping comparison", idx + 1))
                /\ UNCHANGED <<steps, created, raised, pc>>
           ELSE /\ steps' = out.steps
                /\ created' = created \cup out.created
                /\ IF out.exc = "none"
                   THEN /\ console' = console \o <<Message("Comparing", idx + 1)>>
                                               \o out.console
                        /\ UNCHANGED <<raised, pc>>
                   ELSE IF caught(comparator, out.exc)
                   THEN /\ console' = console \o <<Message("Comparing", idx + 1)>>
                                               \o out.console
                                               \o <<Message("Comparison failed", idx + 1)>>
                        /\ UNCHANGED <<raised, pc>>
                   ELSE /\ console' = console \o <<Message("Comparing", idx + 1)>>
                                               \o out.console
                        /\ raised' = out.exc
                        /\ pc' = "raised"
    /\ UNCHANGED <<comparator, inputs, config_diffs, dep_diff, metrics1, metrics2,
                   metrics_comp, scores, ast_cmp, event_sources1, event_sources2,
                   units, comparisons>>
    /\ UNCHANGED tool

\* the end of the loop: the completion message
BatchFinish ==
    /\ pc = "loop"
    /\ idx = Len(comparisons)
    /\ console' = Append(console, Message("Completed all", 0))
    /\ pc' = "completed"
    /\ UNCHANGED <<comparator, inputs, config_diffs, dep_diff, metrics1, metrics2,
                   metrics_comp, scores, ast_cmp, event_sources1, event_sources2,
                   units, raised, steps, created, comparisons, idx>>
    /\ UNCHANGED tool

\* a tool that has been constructed and not called: nothing compared,
\* nothing returned
ToolStart ==
    /\ NoResult
    /\ config1 = NoneValue /\ config2 = NoneValue
    /\ deps1 = NoneValue /\ deps2 = NoneValue
    /\ ast1 = NoneValue /\ ast2 = NoneValue
    /\ unit1 = EmptyUnit("myTestFunction2")
    /\ unit2 = EmptyUnit("myTestFunction5")
    /\ comparisons = <<>>

\* ------------------------------------------------------ the report files

\* a function directory named in a batch file: the directory it lies in and
\* its base name
FuncPath(dir, base) == [dir |-> dir, base |-> base]

\* _prepare_ast_output_file and with_suffix('.json'): the report file of
\* the given suffix in the output directory, named after Path(func1).name,
\* Path(func2).name and datetime.now() formatted to the second
ReportFile(suffix, func1, func2, second) ==
    [kind |-> suffix, func1 |-> func1.base, func2 |-> func2.base,
     timestamp |-> second]

\* a batch file of at most MaxPairs pairs of directories that exist and
\* can be analysed, under prod/ and dev/
InitReports ==
    LET Paths == {FuncPath(d, b) : d \in {"prod", "dev"}, b \in {"a", "b"}}
    IN
    /\ ToolStart
    /\ world \in [pairs : SeqsUpTo([function1 : Paths, function2 : Paths], MaxPairs)
                            \ {<<>>}]

\* compare_from_config_ast on the pairs of the batch file: each pair is
\* handed to compare_functions_ast, which prepares its file name at the
\* clock second the pair is reached and writes the text and the JSON
\* report; the clock does not go back and may stand still from one pair to
\* the next
BatchReports ==
    /\ pc = "start"
    /\ \E seconds \in [DOMAIN world.pairs -> 0..1] :
          /\ \A k \in DOMAIN seconds : k > 1 => seconds[k - 1] <= seconds[k]
          /\ steps' = [n \in 1..(2 * Len(world.pairs)) |->
                         LET k == (n + 1) \div 2 IN
                         [pair |-> k,
                          file |-> ReportFile(IF n % 2 = 1 THEN "txt" ELSE "json",
                                              world.pairs[k].function1,
                                              world.pairs[k].function2,
                                              seconds[k])]]
    /\ created' = {steps'[n].file : n \in DOMAIN steps'}
    /\ idx' = Len(world.pairs)
    /\ console' = <<Message("Starting", 0)>>
                   \o [k \in DOMAIN world.pairs |-> Message("Comparing", k)]
                   \o <<Message("Completed all", 0)>>
    /\ comparator' = "ast"
    /\ pc' = "completed"
    /\ UNCHANGED <<inputs, config_diffs, dep_diff, metrics1, metrics2, metrics_comp,
                   scores, ast_cmp, event_sources1, event_sources2, units, raised,
                   comparisons, tool>>

\* the dict ASTComparator.compare() returns for two unit directories whose
\* extraction raises nothing (its timestamp is left out)
compare(u1, u2) ==
    LET calls == extractions(u1, u2) IN
    [configuration |-> [function1 |-> calls[1].value, function2 |-> calls[2].value,
                        differences |-> compare_configs(calls[1].value, calls[2].value)],
     dependencies  |-> [function1 |-> calls[3].value, function2 |-> calls[4].value,
                        comparison |-> compare_dependencies(calls[3].value,
                                                            calls[4].value)],
     event_sources |-> [function1 |-> calls[7].value, function2 |-> calls[8].value],
     ast_analysis  |-> [function1 |-> calls[5].value, function2 |-> calls[6].value,
                        comparison |-> compare_ast_analysis(calls[5].value,
                                                            calls[6].value)]]

\* a report that was written: its suffix and the comparison it renders
Report(suffix, comparison) == [kind |-> suffix, comparison |-> comparison]

\* two unit directories before compare_functions_ast is called on them
InitTwoReports ==
    /\ NoResult
    /\ NotExtracted
    /\ unit1 \in PartialUnits("myTestFunction2")
    /\ unit2 = PlainUnit("myTestFunction5")

\* compare_functions_ast up to the end of generate_report: the comparator
\* is constructed, the output file prepared, compare() called and the text
\* report written from its result
GenerateReport ==
    /\ pc = "start"
    /\ unit1.exists /\ unit2.exists
    /\ IF first_exception(extractions(unit1, unit2)) # "none"
       THEN /\ raised' = first_exception(extractions(unit1, unit2))
            /\ steps' = <<"construct", "mkdir", "extract">>
            /\ created' = {}
            /\ pc' = "raised"
       ELSE /\ steps' = <<"construct", "mkdir", "extract", "write_report">>
            /\ created' = {Report("txt", compare(unit1, unit2))}
            /\ pc' = "text_written"
            /\ UNCHANGED raised
    /\ comparator' = "ast"
    /\ UNCHANGED <<inputs, config_diffs, dep_diff, metrics1, metrics2, metrics_comp,
                   scores, ast_cmp, event_sources1, event_sources2, units,
                   comparisons, idx, console, tool>>

\* the rest of compare_functions_ast, generate_json_report: compare() is
\* called again and the JSON report written from its result
GenerateJsonReport ==
    /\ pc = "text_written"
    /\ IF first_exception(extractions(unit1, unit2)) # "none"
       THEN /\ raised' = first_exception(extractions(unit1, unit2))
            /\ steps' = steps \o <<"extract">>
            /\ pc' = "raised"
            /\ UNCHANGED created
       ELSE /\ steps' = steps \o <<"extract", "write_json">>
            /\ created' = created \cup {Report("json", compare(unit1, unit2))}
            /\ pc' = "written"
            /\ UNCHANGED raised
    /\ UNCHANGED <<comparator, inputs, config_diffs, dep_diff, metrics1, metrics2,
                   metrics_comp, scores, ast_cmp, event_sources1, event_sources2,
                   units, comparisons, idx, console, tool>>

\* another process rewrites files of the first unit directory while
\* compare_functions_ast runs
ModifyUnit ==
    /\ pc \in {"start", "text_written"}
    /\ unit1' \in PartialUnits(unit1.name) \ {unit1}
    /\ UNCHANGED <<pc, comparator, inputs, config_diffs, dep_diff, metrics1, metrics2,
                   metrics_comp, scores, ast_cmp, event_sources1, event_sources2,
                   unit2, raised, driver, tool>>

\* ------------------------------------------------------ the deployment tool

\* an entry of the functions list of functions.config.yaml: its name, its
\* enabled key ("unset" when the key is absent), what packaging it leaves
\* behind ("failed" when package_function reports failure, else the state
\* of the ZIP file) and what AWS answers to get_function for its name
Function(name, enabled, package, aws) ==
    [name |-> name, enabled |-> enabled, package |-> package, aws |-> aws]

\* func_config.get('enabled', True)
is_enabled(f) == f.enabled # "false"

\* what a call of a tool leaves behind: the exception that left it ("none"
\* when it returned), the value it returned, the steps it took in order,
\* the files it wrote and what it reported
ToolOutcome(exc, value, taken, files, printed) ==
    [exc |-> exc, value |-> value, steps |-> taken, created |-> files,
     console |-> printed]

\* LambdaDeployer.generate_deployment_config: the names that key the
\* 'functions' mapping handed to Terraform
generate_deployment_config(w) ==
    {w.functions[k].name : k \in {j \in DOMAIN w.functions : is_enabled(w.functions[j])}}

\* mutant of apply_terraform: the plan is applied without asking
apply_terraform_unasked(w) ==
    LET tfvars == [kind |-> "tfvars", functions |-> generate_deployment_config(w)]
    IN  IF w.init = Returns(0) /\ w.plan = Returns(0)
        THEN ToolOutcome("none", w.apply = Returns(0),
                         <<"tfvars", "init", "plan", "apply">>, {tfvars}, <<>>)
        ELSE ToolOutcome("none", FALSE, <<"tfvars", "init">>, {tfvars}, <<>>)

\* LambdaDeployer.apply_terraform: validate and write terraform.tfvars.json,
\* terraform init, terraform plan, input(), terraform apply.  A command
\* that is not found or times out and a file that cannot be opened raise;
\* the handler returns False for RuntimeError, CalledProcessError and
\* FileNotFoundError and lets every other exception through.
apply_terraform(w) ==
    LET tfvars == [kind |-> "tfvars", functions |-> generate_deployment_config(w)]
        \* re.match(r'^[a-zA-Z0-9_-]+$', func_name) over the names of the model
        invalid == {"bad name"}
        \* apply_input.strip().lower() in ('yes', 'y') over the answers of
        \* the model
        affirmative == {"yes", "y", "Y", " Yes "}
        left(exc, taken, files) ==
            IF exc \in {"RuntimeError", "CalledProcessError", "FileNotFoundError"}
            THEN ToolOutcome("none", FALSE, taken, files, <<>>)
            ELSE ToolOutcome(exc, NoneValue, taken, files, <<>>)
        returns(value, taken) == ToolOutcome("none", value, taken, {tfvars}, <<>>)
    IN
    IF generate_deployment_config(w) \cap invalid # {}
    THEN left("ValueError", <<>>, {})
    ELSE IF w.tfvars.exc # "none" THEN left(w.tfvars.exc, <<"tfvars">>, {})
    ELSE IF w.init.exc # "none" THEN left(w.init.exc, <<"tfvars", "init">>, {tfvars})
    ELSE IF w.init.value # 0 THEN returns(FALSE, <<"tfvars", "init">>)
    ELSE IF w.plan.exc # "none"
    THEN left(w.plan.exc, <<"tfvars", "init", "plan">>, {tfvars})
    ELSE IF w.plan.value # 0 THEN returns(FALSE, <<"tfvars", "init", "plan">>)
    ELSE IF w.answer.exc # "none"
    THEN returns(FALSE, <<"tfvars", "init", "plan", "input">>)
    ELSE IF w.answer.value \notin affirmative
    THEN returns(TRUE, <<"tfvars", "init", "plan", "input">>)
    ELSE IF w.apply.exc # "none"
    THEN left(w.apply.exc, <<"tfvars", "init", "plan", "input", "apply">>, {tfvars})
    ELSE returns(w.apply.value = 0, <<"tfvars", "init", "plan", "input", "apply">>)

\* what subprocess.run gives _run_command for a terraform command: an exit
\* code, no such program, or a timeout
CommandResults ==
    {Returns(0), Returns(1), Raises("FileNotFoundError"), Raises("TimeoutExpired")}

\* a deployer with one enabled function of a valid or an invalid name, and
\* every answer of the file system, of terraform and of the user
InitTerraform ==
    /\ ToolStart
    /\ world \in [functions : {<<Function(n, "true", "ok", "ResourceNotFoundException")>> :
                                  n \in {"func1", "bad name"}},
                   tfvars    : {Returns(0), Raises("PermissionError")},
                   init      : CommandResults,
                   plan      : CommandResults,
                   answer    : {Returns(a) : a \in {"yes", "y", "Y", " Yes ", "no", ""}}
                               \cup {Raises("EOFError")},
                   apply     : CommandResults]

\* one call of a tool in the world: what it leaves behind
Leaves(out) ==
    /\ pc = "start"
    /\ raised' = out.exc
    /\ returned' = out.value
    /\ steps' = out.steps
    /\ created' = out.created
    /\ console' = out.console
    /\ pc' = IF out.exc = "none" THEN "returned" ELSE "raised"
    /\ UNCHANGED <<comparator, inputs, config_diffs, dep_diff, metrics1, metrics2,
                   metrics_comp, scores, ast_cmp, event_sources1, event_sources2,
                   units, comparisons, idx, world>>

\* one call of apply_terraform
ApplyTerraform == Leaves(apply_terraform(world))

\* a step taken for a function
Step(op, name) == [op |-> op, name |-> name]

\* most functions listed in functions.config.yaml
MaxFunctions == 3

\* LambdaDeployer._check_existing_functions: the names get_function
\* answers for; without credentials no name is looked up
existing_functions(w) ==
    IF w.credentials # "ok" THEN {}
    ELSE {w.functions[k].name :
            k \in {j \in DOMAIN w.functions :
                      is_enabled(w.functions[j]) /\ w.functions[j].aws = "exists"}}

\* LambdaDeployer.deploy.  The package of a function is "ok", "failed"
\* (package_function returned False), "KeyError" (its entry has no path),
\* "missing", "empty", "invalid" (ZipFile raises BadZipFile) or
\* "bad_member" (testzip() returns the name of a member whose CRC is
\* wrong; the call's result is not looked at).  The files left are those
\* the cleanup that ran did not remove.
deploy(w) ==
    LET enabled == SelectSeq(w.functions, is_enabled)
        \* the functions package_function is called for: all of them, or
        \* those up to the first whose entry raises KeyError
        reached ==
            IF \E k \in DOMAIN enabled : enabled[k].package = "KeyError"
            THEN CHOOSE k \in DOMAIN enabled :
                    /\ enabled[k].package = "KeyError"
                    /\ \A j \in 1..(k - 1) : enabled[j].package # "KeyError"
            ELSE Len(enabled)
        packaging == [k \in 1..reached |-> Step("package", enabled[k].name)]
        packages ==
            {[kind |-> "package", functions |-> {enabled[k].name}] :
                k \in {j \in 1..reached :
                          enabled[j].package \notin {"failed", "KeyError", "missing"}}}
        any(states) == \E k \in DOMAIN enabled : enabled[k].package \in states
        summary ==
            [k \in DOMAIN enabled |->
                [name |-> enabled[k].name,
                 deployment_status |-> IF enabled[k].name \in existing_functions(w)
                                       THEN "skipped" ELSE "deployed"]]
        terraform == apply_terraform(w)
        called == packaging \o <<Step("check_existing", ""), Step("apply_terraform", "")>>
                     \o [k \in DOMAIN terraform.steps |-> Step(terraform.steps[k], "")]
        fails(taken) ==
            ToolOutcome("none", 1, taken \o <<Step("cleanup_failed", "")>>, {}, <<>>)
    IN
    IF any({"KeyError"}) \/ any({"failed"}) \/ any({"missing"}) \/ any({"empty"})
       \/ any({"invalid"})
    THEN fails(packaging)
    ELSE IF \A k \in DOMAIN enabled : enabled[k].name \in existing_functions(w)
    THEN ToolOutcome("none", 0,
                     packaging \o <<Step("check_existing", ""),
                                    Step("cleanup_successful", "")>>,
                     {}, summary)
    ELSE IF terraform.exc # "none"
    THEN ToolOutcome(terraform.exc, NoneValue, called,
                     packages \cup terraform.created, <<>>)
    ELSE IF ~terraform.value THEN fails(called)
    ELSE ToolOutcome("none", 0, called \o <<Step("cleanup_successful", "")>>,
                     terraform.created, summary)

\* a configuration of at most MaxFunctions functions of distinct names,
\* enabled or not, with every state of package and every answer of AWS,
\* and terraform succeeding, failing, timing out or being declined
InitDeploy ==
    LET Profiles(name) ==
            {Function(name, "true", p, "ResourceNotFoundException") :
                p \in {"ok", "failed", "KeyError", "missing", "empty", "invalid",
                       "bad_member"}}
            \cup {Function(name, "unset", "ok", a) : a \in {"exists", "AccessDenied"}}
            \cup {Function(name, "false", "failed", "exists")}
        Named(n) == <<"func1", "func2", "func3", "func4">>[n]
        RECURSIVE Lists(_)
        Lists(n) ==
            IF n = 0 THEN {<<>>}
            ELSE Lists(n - 1) \cup
                 {Append(fs, f) : fs \in {l \in Lists(n - 1) : Len(l) = n - 1},
                                  f \in Profiles(Named(n))}
        Terraform(init, answer, apply) ==
            [credentials |-> "ok", tfvars |-> Returns(0), init |-> init,
             plan |-> Returns(0), answer |-> Returns(answer), apply |-> apply]
        Worlds ==
            {Terraform(Returns(0), "yes", Returns(0)),
             Terraform(Returns(1), "yes", Returns(0)),
             Terraform(Returns(0), "no", Returns(0)),
             Terraform(Returns(0), "yes", Returns(1)),
             Terraform(Returns(0), "yes", Raises("TimeoutExpired")),
             [Terraform(Returns(0), "yes", Returns(0))
                 EXCEPT !.credentials = "NoCredentialsError"]}
    IN
    /\ ToolStart
    /\ \E fs \in Lists(MaxFunctions), t \in Worlds :
          world = [functions |-> fs, credentials |-> t.credentials,
                   tfvars |-> t.tfvars, init |-> t.init, plan |-> t.plan,
                   answer |-> t.answer, apply |-> t.apply]

\* one call of deploy
Deploy == Leaves(deploy(world))

\* --------------------------------------------------------- the upgrade tool

\* an entry of the functions list as the upgrader meets it: its name, its
\* enabled key ("unset" when absent) and what each step of its upgrade
\* will answer: the three file steps a bool or an exception, the two sam
\* commands an exit code or an exception
Upgrade(name, enabled, syntax, template, requirements, sam, build) ==
    [name |-> name, enabled |-> enabled, syntax |-> syntax, template |-> template,
     requirements |-> requirements, sam |-> sam, build |-> build]

\* mutant of upgrade_function: a failed syntax fix is logged and the
\* upgrade goes on
upgrade_function_goes_on(f) ==
    ToolOutcome("none", f.build = Returns(0),
                [k \in 1..5 |-> Step(<<"syntax", "template", "requirements",
                                       "sam_version", "sam_build">>[k], f.name)],
                {}, <<>>)

\* LambdaUpgrader.upgrade_function: _fix_python314_syntax,
\* _update_template_yaml, _update_requirements, 'sam --version', 'sam
\* build'; "except Exception" turns every exception into False, and the
\* handler around 'sam --version' turns its exception into True
upgrade_function(f) ==
    LET taken(ops) == [k \in DOMAIN ops |-> Step(ops[k], f.name)]
        returns(value, ops) == ToolOutcome("none", value, taken(ops), {}, <<>>)
    IN
    IF f.syntax # Returns(TRUE) THEN returns(FALSE, <<"syntax">>)
    ELSE IF f.template # Returns(TRUE) THEN returns(FALSE, <<"syntax", "template">>)
    ELSE IF f.requirements # Returns(TRUE)
    THEN returns(FALSE, <<"syntax", "template", "requirements">>)
    ELSE IF f.sam # Returns(0)
    THEN returns(TRUE, <<"syntax", "template", "requirements", "sam_version">>)
    ELSE returns(f.build = Returns(0),
                 <<"syntax", "template", "requirements", "sam_version", "sam_build">>)

\* mutant of upgrade_all_functions: the loop ends at the first function
\* whose upgrade fails
RECURSIVE upgrade_all_functions_stops(_)
upgrade_all_functions_stops(functions) ==
    IF functions = <<>> THEN [steps |-> <<>>, results |-> <<>>]
    ELSE LET f == Head(functions)
             out == upgrade_function(f)
             rest == IF is_enabled(f) /\ ~out.value
                     THEN [steps |-> <<>>, results |-> <<>>]
                     ELSE upgrade_all_functions_stops(Tail(functions))
         IN  IF ~is_enabled(f) THEN rest
             ELSE [steps |-> <<Step("upgrade_function", f.name)>> \o out.steps
                             \o rest.steps,
                   results |-> rest.results @@ (f.name :> out.value)]

\* LambdaUpgrader.upgrade_all_functions on the functions list: the calls
\* made, in order, and the results dict, in which a later assignment to a
\* name replaces an earlier one
RECURSIVE upgrade_all_functions(_)
upgrade_all_functions(functions) ==
    IF functions = <<>> THEN [steps |-> <<>>, results |-> <<>>]
    ELSE LET f == functions[Len(functions)]
             earlier == upgrade_all_functions(SubSeq(functions, 1, Len(functions) - 1))
             out == upgrade_function(f)
         IN  IF ~is_enabled(f) THEN earlier
             ELSE [steps |-> earlier.steps \o <<Step("upgrade_function", f.name)>>
                             \o out.steps,
                   results |-> (f.name :> out.value) @@ earlier.results]

\* LambdaUpgrader.report_results: 0 when as many entries are successes as
\* there are entries
report_results(results) ==
    IF Cardinality({n \in DOMAIN results : results[n]}) = Cardinality(DOMAIN results)
    THEN 0 ELSE 1

\* LambdaUpgrader.run: the results of upgrade_all_functions and the code of
\* report_results
run(w) ==
    LET all == upgrade_all_functions(w.functions) IN
    ToolOutcome("none",
                [results |-> all.results, code |-> report_results(all.results)],
                all.steps, {}, <<>>)

\* a configuration of at most MaxFunctions functions of distinct names,
\* each enabled, disabled or without the key, whose upgrade succeeds,
\* fails at the syntax fix, finds no SAM CLI or fails at the build
InitUpgradeAll ==
    LET Profiles(name) ==
            {Upgrade(name, e, o[1], Returns(TRUE), Returns(TRUE), o[2], o[3]) :
                e \in {"unset", "true", "false"},
                o \in {<<Returns(TRUE), Returns(0), Returns(0)>>,
                       <<Returns(FALSE), Returns(0), Returns(0)>>,
                       <<Returns(TRUE), Raises("FileNotFoundError"), Returns(0)>>,
                       <<Returns(TRUE), Returns(0), Returns(1)>>}}
        Named(n) == <<"func1", "func2", "func3", "func4">>[n]
        RECURSIVE Lists(_)
        Lists(n) ==
            IF n = 0 THEN {<<>>}
            ELSE Lists(n - 1) \cup
                 {Append(fs, f) : fs \in {l \in Lists(n - 1) : Len(l) = n - 1},
                                  f \in Profiles(Named(n))}
    IN
    /\ ToolStart
    /\ world \in [functions : Lists(MaxFunctions)]

\* one function whose steps answer in every way
InitUpgrade ==
    LET Answers == {Returns(TRUE), Returns(FALSE), Raises("PermissionError")}
        Codes == {Returns(0), Returns(1), Raises("TimeoutExpired")}
    IN
    /\ ToolStart
    /\ world \in [functions : {<<Upgrade("func1", "unset", s, t, r, v, b)>> :
                                  s \in Answers, t \in Answers, r \in Answers,
                                  v \in Codes, b \in Codes}]

\* one call of upgrade_function on the function of the configuration
UpgradeFunction == Leaves(upgrade_function(world.functions[1]))

\* one call of run
Run == Leaves(run(world))

Next == Compare

NextConfig ==
    \/ Compare
    \/ ATSCompare

Spec == InitScore /\ [][Next]_vars
SpecDiff == InitDiff /\ [][Next]_vars
SpecSelf == InitSelf /\ [][Next]_vars
SpecComplexity == InitComplexity /\ [][Next]_vars
SpecMetrics == InitMetrics /\ [][Next]_vars
SpecConfig == InitConfig /\ [][NextConfig]_vars
SpecAst == InitAst /\ [][CompareUnits]_vars
SpecManifest == InitManifest /\ [][CompareUnits \/ ATSCompareUnits]_vars
SpecFiles == InitFiles /\ [][CompareUnits]_vars
SpecEvents == InitEvents /\ [][CompareUnits]_vars
SpecShapes == InitShapes /\ [][CompareUnits]_vars
SpecPartial == InitPartial /\ [][CompareUnits]_vars
SpecDriver == InitDriver /\ [][CompareFunctionsAst]_vars
SpecBatch == InitBatch /\ [][BatchStart \/ BatchPair \/ BatchFinish]_vars
SpecSwap == InitSwap /\ [][Compare \/ CompareSwapped]_vars
SpecCalls == InitCalls /\ [][CompareUnits]_vars
SpecTemplates == InitTemplates /\ [][CompareUnits]_vars
SpecTerraform == InitTerraform /\ [][ApplyTerraform]_vars
SpecUpgrade == InitUpgrade /\ [][UpgradeFunction]_vars
SpecUpgradeAll == InitUpgradeAll /\ [][Run]_vars
SpecDeploy == InitDeploy /\ [][Deploy]_vars
SpecReports == InitReports /\ [][BatchReports]_vars
SpecTwoReports ==
    InitTwoReports /\ [][GenerateReport \/ GenerateJsonReport \/ ModifyUnit]_vars

AstDone == pc = "done" /\ comparator = "ast"
AtsDone == pc = "done" /\ comparator = "ats"

\* ------------------------------------------------------------- the claims

NoDuplicates(list) == Cardinality(ToSet(list)) = Len(list)

\* first, second and common are duplicate-free, pairwise disjoint and together
\* hold exactly the elements of A and B
Partitions(first, second, common, A, B) ==
    /\ NoDuplicates(first) /\ NoDuplicates(second) /\ NoDuplicates(common)
    /\ ToSet(first) \cap ToSet(second) = {}
    /\ ToSet(first) \cap ToSet(common) = {}
    /\ ToSet(second) \cap ToSet(common) = {}
    /\ ToSet(first) \cup ToSet(second) \cup ToSet(common) = ToSet(A) \cup ToSet(B)

SetDiffPartitions(d, A, B) ==
    Partitions(d.only_in_first, d.only_in_second, d.common, A, B)

\* C1: every set diff of the structural comparison, and the dependency diff,
\* splits the two input lists (duplicates allowed) into three duplicate-free,
\* pairwise disjoint lists whose union is set(A) | set(B).
C1_DiffPartitions ==
    AstDone =>
        /\ SetDiffPartitions(ast_cmp.functions_diff, ast1.functions, ast2.functions)
        /\ SetDiffPartitions(ast_cmp.classes_diff, ast1.classes, ast2.classes)
        /\ SetDiffPartitions(ast_cmp.imports_diff, ast1.imports, ast2.imports)
        /\ SetDiffPartitions(ast_cmp.decorators_diff, ast1.decorators, ast2.decorators)
        /\ SetDiffPartitions(ast_cmp.external_calls_diff,
                             ast1.external_calls, ast2.external_calls)
        /\ SetDiffPartitions(ast_cmp.variables_diff,
                             ast1.variables_defined, ast2.variables_defined)
        /\ Partitions(dep_diff.only_in_function1, dep_diff.only_in_function2,
                      dep_diff.common, deps1.packages, deps2.packages)

\* a function list with a repeated name was diffed against an overlapping one
C1_Witness ==
    /\ AstDone
    /\ ~NoDuplicates(ast1.functions)
    /\ ast_cmp.functions_diff.common # <<>>
    /\ ast_cmp.functions_diff.only_in_second # <<>>

\* a package list with a repeated specifier was diffed against an overlapping one
C1_WitnessDeps ==
    /\ AstDone
    /\ ~NoDuplicates(deps1.packages)
    /\ dep_diff.common # <<>>
    /\ dep_diff.only_in_function2 # <<>>

\* C2: the set diff of (B, A) is the set diff of (A, B) with only_in_first and
\* only_in_second exchanged and the same common list, element order included.
C2_SwapSymmetry ==
    AstDone =>
        LET d == ast_cmp.functions_diff
            r == get_set_diff(ast2.functions, ast1.functions)
        IN  /\ r.only_in_first = d.only_in_second
            /\ r.only_in_second = d.only_in_first
            /\ r.common = d.common

\* two lists that share two names, met in opposite orders
C2_Witness ==
    /\ AstDone
    /\ ast1.functions = <<"g", "f">>
    /\ ast2.functions = <<"f", "g">>
    /\ ast_cmp.functions_diff.common = <<"f", "g">>

Score == ast_cmp.semantic_similarity_score

AllOnlyInEmpty ==
    \A d \in {ast_cmp.functions_diff, ast_cmp.classes_diff, ast_cmp.imports_diff,
              ast_cmp.decorators_diff, ast_cmp.external_calls_diff,
              ast_cmp.variables_diff} :
        d.only_in_first = <<>> /\ d.only_in_second = <<>>

\* C3 as stated: a summary compared with itself scores 100 and every structural
\* diff has empty only_in lists.
C3_SelfScores100 ==
    (AstDone /\ ast1 = ast2) => (Score = RatOf(100) /\ AllOnlyInEmpty)

\* C3 as amended: a summary compared with itself has empty only_in lists in
\* every structural diff, and scores 100 exactly when it has the entry point
\* and no function name is repeated.
C3_SelfComparison ==
    (AstDone /\ ast1 = ast2) =>
        /\ AllOnlyInEmpty
        /\ Score = RatOf(100) <=> (ast1.has_lambda_handler /\ NoDuplicates(ast1.functions))

\* a summary with the entry point and distinct names was compared with itself
C3_Witness ==
    /\ AstDone
    /\ ast1 = ast2
    /\ ast1.has_lambda_handler
    /\ Len(ast1.functions) = 2
    /\ ast1.classes # <<>>
    /\ Score = RatOf(100)

InRange(x) == RatLe(RatOf(0), x) /\ RatLe(x, RatOf(100))

\* C4: the similarity score and every sub-score that enters the average lie
\* in [0, 100].
C4_ScoreInRange ==
    AstDone => (InRange(Score) /\ \A i \in DOMAIN scores : InRange(scores[i]))

\* all five sub-scores were taken, one of them 0 and one of them 100, over a
\* function list with a repeated name
C4_Witness ==
    /\ AstDone
    /\ Len(scores) = 5
    /\ RatOf(0) \in ToSet(scores)
    /\ RatOf(100) \in ToSet(scores)
    /\ ~NoDuplicates(ast1.functions)

\* the three collection dimensions, as pairs of lists
Dimensions ==
    <<<<ast1.functions, ast2.functions>>, <<ast1.imports, ast2.imports>>,
      <<ast1.external_calls, ast2.external_calls>>>>

BothEmpty(p) == p[1] = <<>> /\ p[2] = <<>>
BothNonEmpty(p) == p[1] # <<>> /\ p[2] # <<>>
ExactlyOneEmpty(p) == ~BothEmpty(p) /\ ~BothNonEmpty(p)

Mean(s) == RatDivInt(RatSum(s), Len(s))

\* C5 as stated: a dimension's sub-score is left out exactly when both
\* collections are empty, and the score is the mean of the sub-scores taken
\* and the two that are always taken.
C5_LeftOutWhenBothEmpty ==
    AstDone =>
        /\ Len(scores) = 2 + Cardinality({i \in 1..3 : ~BothEmpty(Dimensions[i])})
        /\ Score = Mean(scores)

\* C5 as amended: a dimension's sub-score is left out exactly when at least
\* one of the two collections is empty; the score is the mean of the taken
\* sub-scores, the last two of which are complexity closeness and
\* entry-point agreement.
C5_LeftOutWhenEitherEmpty ==
    AstDone =>
        /\ Len(scores) = 2 + Cardinality({i \in 1..3 : BothNonEmpty(Dimensions[i])})
        /\ scores[Len(scores) - 1] = RatOf(complexity_similarity(ast1, ast2))
        /\ scores[Len(scores)] = RatOf(handler_score(ast1, ast2))
        /\ Score = Mean(scores)

\* exactly one function list is empty, and so is exactly one import list
C5_Witness ==
    /\ AstDone
    /\ ExactlyOneEmpty(Dimensions[1])
    /\ ExactlyOneEmpty(Dimensions[2])
    /\ BothNonEmpty(Dimensions[3])
    /\ Len(scores) = 3

\* 100 * |common| / max(|A|, |B|) with |A|, |B| the lengths of the lists
OverlapOf(common, A, B) == Rat(100 * Len(common), Max(Len(A), Len(B)))

\* position in scores of dimension i's sub-score, when it is taken
ScoreIndex(i) == Cardinality({j \in 1..i : BothNonEmpty(Dimensions[j])})

\* C6: when both units declare a function the function sub-score is
\* 100 * |common| / max(|A|, |B|) over the two lists of declared names
\* ([f, g] against [g, h] gives 50); imports and external calls likewise.
C6_OverlapRatio ==
    AstDone =>
        /\ BothNonEmpty(Dimensions[1]) =>
              scores[ScoreIndex(1)] = OverlapOf(ast_cmp.functions_diff.common,
                                                ast1.functions, ast2.functions)
        /\ BothNonEmpty(Dimensions[2]) =>
              scores[ScoreIndex(2)] = OverlapOf(ast_cmp.imports_diff.common,
                                                ast1.imports, ast2.imports)
        /\ BothNonEmpty(Dimensions[3]) =>
              scores[ScoreIndex(3)] = OverlapOf(ast_cmp.external_calls_diff.common,
                                                ast1.external_calls, ast2.external_calls)
        /\ (ast1.functions = <<"f", "g">> /\ ast2.functions = <<"g", "h">>) =>
              scores[1] = RatOf(50)

\* [f, g] was compared with [g, h]
C6_Witness ==
    /\ AstDone
    /\ ast1.functions = <<"f", "g">>
    /\ ast2.functions = <<"g", "h">>
    /\ scores[1] = RatOf(50)

ComplexityGap == Abs(ast1.cyclomatic_complexity - ast2.cyclomatic_complexity)

\* C7: the complexity sub-score is 100 - 5k for a gap k < 10 and 50 for
\* k >= 10; it never is below 50 and does not grow with the gap.
C7_ComplexityCloseness ==
    AstDone =>
        LET cs == scores[Len(scores) - 1]
        IN  /\ ComplexityGap < 10 => cs = RatOf(100 - 5 * ComplexityGap)
            /\ ComplexityGap >= 10 => cs = RatOf(50)
            /\ RatLe(RatOf(50), cs)
            /\ \A c \in 1..MaxComplexity :
                  Abs(ast1.cyclomatic_complexity - c) >= ComplexityGap =>
                     RatLe(RatOf(complexity_similarity(
                               ast1, [ast2 EXCEPT !.cyclomatic_complexity = c])), cs)

\* a gap beyond 10
C7_Witness ==
    /\ AstDone
    /\ ComplexityGap > 10
    /\ scores[Len(scores) - 1] = RatOf(50)

\* C8: memory_efficiency is min(100, memory / 3008 * 100): non-decreasing in
\* memory, never above 100, 100 at 3008 MB and 50 at 1504 MB.
C8_MemoryEfficiency ==
    AstDone =>
        /\ \A cm \in {<<config1, metrics1>>, <<config2, metrics2>>} :
              LET m == cm[1].memory
                  e == cm[2].memory_efficiency
              IN  /\ RatLe(e, RatOf(100))
                  /\ m <= 3008 => e.n * 3008 = e.d * m * 100
                  /\ m >= 3008 => e = RatOf(100)
                  /\ m = 1504 => e = RatOf(50)
        /\ config1.memory <= config2.memory =>
              RatLe(metrics1.memory_efficiency, metrics2.memory_efficiency)

\* 1504 MB against more than 3008 MB
C8_Witness ==
    /\ AstDone
    /\ config1.memory = 1504
    /\ config2.memory > 3008
    /\ metrics1.memory_efficiency = RatOf(50)
    /\ metrics2.memory_efficiency = RatOf(100)

\* the significance mapping of the specification
ClaimedSignificance(field) ==
    IF field \in {"runtime", "memory", "timeout", "architecture"} THEN "CRITICAL"
    ELSE IF field \in {"handler", "layers", "tracing_enabled", "environment_vars",
                       "ephemeral_storage"} THEN "IMPORTANT"
    ELSE "MINOR"

\* C9: wherever a field diff is produced, by the AST-level or by the ATS-level
\* comparator, its significance is the one mapping: runtime, memory, timeout,
\* architecture CRITICAL; handler, layers, tracing flag, environment
\* variables, ephemeral storage IMPORTANT; every other field MINOR.
C9_OneSignificanceMapping ==
    pc = "done" =>
        \A i \in DOMAIN config_diffs :
            config_diffs[i].significance = ClaimedSignificance(config_diffs[i].field)

\* the fields of `fields` on which the two configs differ
Differing(fields) == {f \in ToSet(fields) : config1[f] # config2[f]}

DiffersOnlyInMemory ==
    /\ config1.memory = 128
    /\ config2.memory = 256
    /\ \A f \in ToSet(DataclassFields) \ {"memory"} : config1[f] = config2[f]

\* C10: the field diff holds exactly one record for each compared field whose
\* values differ and none for an equal one, each with the field name, both
\* values and the comparator's significance of the field; 128 against 256 MB
\* alone gives the one record (memory, CRITICAL), equal configs give none.
C10_FieldDiff ==
    /\ AstDone =>
          /\ Len(config_diffs) = Cardinality(Differing(AstFields))
          /\ {config_diffs[i].field : i \in DOMAIN config_diffs} = Differing(AstFields)
          /\ \A i \in DOMAIN config_diffs :
                LET r == config_diffs[i]
                IN  /\ r.function1_value = config1[r.field]
                    /\ r.function2_value = config2[r.field]
                    /\ r.significance = get_significance(r.field)
    /\ AtsDone =>
          /\ Len(config_diffs) = Cardinality(Differing(DataclassFields))
          /\ {config_diffs[i].field : i \in DOMAIN config_diffs}
                = Differing(DataclassFields)
          /\ \A i \in DOMAIN config_diffs :
                LET r == config_diffs[i]
                IN  /\ r.function1 = config1[r.field]
                    /\ r.function2 = config2[r.field]
                    /\ r.significance = ats_get_significance(r.field)
    /\ (pc = "done" /\ DiffersOnlyInMemory) =>
          /\ Len(config_diffs) = 1
          /\ config_diffs[1].field = "memory"
          /\ config_diffs[1].significance = "CRITICAL"
    /\ (pc = "done" /\ config1 = config2) => config_diffs = <<>>

\* the AST-level comparator compared two configs that differ in memory alone
C10_Witness ==
    /\ AstDone
    /\ DiffersOnlyInMemory
    /\ config_diffs = <<[field |-> "memory", function1_value |-> 128,
                         function2_value |-> 256, significance |-> "CRITICAL"]>>

\* ------------------------------------------------------------------- C11

\* the nodes beneath node i: those after it, up to the next node that is not
\* deeper than i
Beneath(nodes, i) ==
    {j \in DOMAIN nodes :
        j > i /\ \A k \in (i + 1)..j : nodes[k].depth > nodes[i].depth}

FunctionDefs(nodes) == {i \in DOMAIN nodes : nodes[i].kind = "FunctionDef"}

Branches(nodes) ==
    {j \in DOMAIN nodes : nodes[j].kind \in {"If", "For", "While", "ExceptHandler"}}

\* the function definitions a node is nested in
Enclosing(nodes, j) == {i \in FunctionDefs(nodes) : j \in Beneath(nodes, i)}

\* the only file of unit1
TheFile == unit1.source.files[1].nodes

\* one function that holds one "if" and one "for" and nothing else that counts
OneIfOneFor(nodes) ==
    /\ Cardinality(FunctionDefs(nodes)) = 1
    /\ Cardinality(Branches(nodes)) = 2
    /\ \E i, j \in Branches(nodes) : nodes[i].kind = "If" /\ nodes[j].kind = "For"
    /\ \A j \in Branches(nodes) : Enclosing(nodes, j) # {}

\* C11: the complexity of a parsed file is 1 plus, over every function
\* definition, the number of if/for/while/except nodes anywhere beneath it,
\* so a branch nested in k function definitions counts k times; one function
\* holding one "if" and one "for" gives 3.
C11_FileComplexity ==
    AstDone =>
       /\ ast1.cyclomatic_complexity =
             1 + Cardinality({<<i, j>> \in FunctionDefs(TheFile) \X Branches(TheFile) :
                                 j \in Beneath(TheFile, i)})
       /\ OneIfOneFor(TheFile) => ast1.cyclomatic_complexity = 3

\* a branch nested in two function definitions was counted twice
C11_Witness ==
    /\ AstDone
    /\ Cardinality(Branches(TheFile)) = 1
    /\ \E j \in Branches(TheFile) : Cardinality(Enclosing(TheFile, j)) = 2
    /\ ast1.cyclomatic_complexity = 3

\* the spec's scenario has run
C11_WitnessScenario == AstDone /\ OneIfOneFor(TheFile) /\ Len(TheFile) = 3

\* ------------------------------------------------------------------- C12

\* the package specifiers a requirements.txt holds: its lines without the
\* surrounding white space, blank lines and comment lines left out
Specifiers(lines) ==
    LET stripped == [k \in DOMAIN lines |-> strip(lines[k])]
    IN  SelectSeq(stripped, LAMBDA l : l # "" /\ ~startswith_hash(l))

\* the diff of a unit without manifest (only_in list mine) against a unit
\* whose manifest holds the given specifiers (only_in list theirs)
AllOnOneSide(specifiers, mine, theirs) ==
    /\ dep_diff.total_difference = Len(specifiers)
    /\ ToSet(theirs) = ToSet(specifiers)
    /\ mine = <<>>
    /\ dep_diff.common = <<>>

\* C12: when one unit has no manifest and the other's manifest holds n
\* specifiers, total_difference is n, the only_in list of the unit with the
\* manifest holds all of them, and the other only_in list and common are
\* empty.
C12_OneManifestMissing ==
    AstDone =>
       /\ unit1.manifest.state = "missing" /\ unit2.manifest.state = "ok" =>
             AllOnOneSide(Specifiers(unit2.manifest.lines),
                          dep_diff.only_in_function1, dep_diff.only_in_function2)
       /\ unit2.manifest.state = "missing" /\ unit1.manifest.state = "ok" =>
             AllOnOneSide(Specifiers(unit1.manifest.lines),
                          dep_diff.only_in_function2, dep_diff.only_in_function1)

\* ------------------------------------------------------------------- C13

\* compare() has run on the directories, to its return or to an exception
Ran == pc \in {"done", "raised"}

GoodFiles(unit) == SelectSeq(python_files(unit), LAMBDA f : f.state = "ok")

BadFiles(unit) == SelectSeq(python_files(unit), LAMBDA f : f.state # "ok")

\* the unit with its bad files taken away
GoodOnly(unit) == [unit EXCEPT !.source = SourceFolder(GoodFiles(unit))]

\* C13: when some files of a unit do not parse or cannot be read (a file that
\* is not decodable as text included), the analysis does not raise and
\* returns the summary of the good files alone.
C13_BadFilesSkipped ==
    Ran /\ BadFiles(unit1) # <<>> /\ GoodFiles(unit1) # <<>> =>
       /\ raised = "none"
       /\ ast1 = analyze_ast(GoodOnly(unit1)).value

\* ------------------------------------------------------------------- C14

\* C14: the analysis returns None, and neither a populated summary nor an
\* exception, when the source folder is missing, holds no source file, or
\* holds only files that do not parse.
C14_NoSummary ==
    Ran /\ GoodFiles(unit1) = <<>> =>
       /\ raised = "none"
       /\ ast1 = NoneValue

\* ------------------------------------------------------------------- C15

\* the unit as it would be with a source file that parses
WithSource(unit) == [unit EXCEPT !.source = SourceFolder(<<HandlerFile>>)]

\* what the extractors return for the two units had both been analysed
HadItSucceeded == extractions(WithSource(unit1), WithSource(unit2))

\* the sections other than the structural one are those of HadItSucceeded
OtherSectionsPopulated ==
    LET calls == HadItSucceeded IN
    /\ config1 = calls[1].value
    /\ config2 = calls[2].value
    /\ config_diffs = compare_configs(calls[1].value, calls[2].value)
    /\ deps1 = calls[3].value
    /\ deps2 = calls[4].value
    /\ dep_diff = compare_dependencies(calls[3].value, calls[4].value)
    /\ metrics1 = calculate_metrics(calls[1].value, calls[3].value)
    /\ metrics2 = calculate_metrics(calls[2].value, calls[4].value)
    /\ metrics_comp = compare_metrics(metrics1, metrics2)
    /\ event_sources1 = calls[7].value
    /\ event_sources2 = calls[8].value

\* C15: when the analysis gave no summary for a unit, the structural
\* comparison is exactly {status: "incomplete", message}, that unit's summary
\* is reported as null, and the configuration, dependency, metrics and
\* event-source sections are what they would be had the analysis succeeded.
C15_Incomplete ==
    AstDone /\ (python_files(unit1) = <<>> \/ python_files(unit2) = <<>>) =>
       /\ ast_cmp = [status |-> "incomplete",
                     message |-> "One or both functions could not be analyzed"]
       /\ python_files(unit1) = <<>> => ast1 = NoneValue
       /\ python_files(unit2) = <<>> => ast2 = NoneValue
       /\ python_files(unit1) # <<>> => ast1 = analyze_ast(unit1).value
       /\ python_files(unit2) # <<>> => ast2 = analyze_ast(unit2).value
       /\ OtherSectionsPopulated

\* the first unit has nothing to analyse, the second has, and the two differ
\* in configuration, dependencies and triggers
C15_Witness ==
    /\ AstDone
    /\ ast1 = NoneValue
    /\ ast2 # NoneValue
    /\ config_diffs # <<>>
    /\ dep_diff.total_difference = 2
    /\ event_sources1 # event_sources2

\* ------------------------------------------------------------------- C16

\* C16: when either unit directory is missing, the comparison of the pair
\* fails with a ValueError before any extraction has started and before the
\* output directory or any output file has been created.
C16_MissingDirectory ==
    pc # "start" /\ (~unit1.exists \/ ~unit2.exists) =>
       /\ pc = "raised"
       /\ raised = "ValueError"
       /\ ToSet(steps) \cap {"extract", "mkdir", "write_report", "write_json"} = {}
       /\ created = {}

\* the second directory alone was missing, and the call raised
C16_Witness ==
    /\ pc = "raised"
    /\ unit1.exists
    /\ ~unit2.exists
    /\ raised = "ValueError"
    /\ steps = <<"construct">>
    /\ console # <<>>

\* ------------------------------------------------------------------- C17

\* C17: once both directories exist, compare() returns a result and never
\* raises, whatever the state of the template, the manifest and the source:
\* absent, unreadable, invalid, or of an unexpected shape.
C17_NeverRaises == Ran => raised = "none" /\ AstDone

\* ------------------------------------------------------------------- C18

\* the console lines that open the turn of a pair
PairLog ==
    SelectSeq(console, LAMBDA m : m.msg \in {"Skipping comparison", "Comparing"})

LacksName(comp) == comp.function1 = "" \/ comp.function2 = ""

LacksDirectory(comp) ==
    ~LacksName(comp) /\ (~Disk(comp.function1).exists \/ ~Disk(comp.function2).exists)

\* the console line that closes the turn of a failed pair
Failed(k) == \E i \in DOMAIN console : console[i] = Message("Comparison failed", k)

\* the reports of a pair were written
Reported(comp) ==
    \E f \in created : /\ f.kind = "txt"
                        /\ f.func1 = comp.function1
                        /\ f.func2 = comp.function2

\* C18: a batch handles the listed pairs one at a time in list order; a pair
\* with a missing directory or without a function name ends only its own
\* comparison, the later pairs are still handled, and the batch reaches its
\* completion message.
C18_BatchCompletes ==
    pc \in {"loop", "completed", "raised", "returned"} /\ comparisons # <<>> =>
       /\ pc \in {"loop", "completed"}
       /\ raised = "none"
       /\ Len(PairLog) = idx
       /\ \A k \in 1..idx :
             /\ PairLog[k].pair = k
             /\ PairLog[k].msg = "Skipping comparison" <=> LacksName(comparisons[k])
             /\ LacksDirectory(comparisons[k]) => Failed(k)
             /\ Failed(k) => ~LacksName(comparisons[k])
       /\ \A i, j \in DOMAIN console :
             i < j /\ console[i].pair > 0 /\ console[j].pair > 0 =>
                console[i].pair <= console[j].pair
       /\ idx <= Len(comparisons)
       /\ pc = "completed" =>
             /\ idx = Len(comparisons)
             /\ console[Len(console)] = Message("Completed all", 0)

\* a batch completed whose first pair has a missing directory and whose
\* second pair was compared and reported
C18_Witness ==
    /\ pc = "completed"
    /\ Len(comparisons) = 2
    /\ LacksDirectory(comparisons[1])
    /\ Failed(1)
    /\ ~LacksName(comparisons[2])
    /\ ~LacksDirectory(comparisons[2])
    /\ ~Failed(2)
    /\ Reported(comparisons[2])

\* a batch completed whose first pair has no function name and whose second
\* pair was compared and reported
C18_WitnessNoName ==
    /\ pc = "completed"
    /\ Len(comparisons) = 2
    /\ LacksName(comparisons[1])
    /\ ~Failed(2)
    /\ Reported(comparisons[2])

\* ------------------------------------------------------------------- C19

\* the specifiers of a unit's manifest, none when it has no manifest
SpecifiersOf(unit) ==
    IF unit.manifest.state = "ok" THEN Specifiers(unit.manifest.lines) ELSE <<>>

\* what the extractor returned for the unit is its specifiers, in file
\* order, each one non-empty, stripped and no comment, and their count
WellExtracted(deps, unit) ==
    /\ \A k \in DOMAIN deps.packages :
          /\ deps.packages[k] # ""
          /\ strip(deps.packages[k]) = deps.packages[k]
          /\ ~startswith_hash(deps.packages[k])
    /\ deps.packages = SpecifiersOf(unit)
    /\ deps.total_packages = Len(deps.packages)

\* C19: every specifier the dependency extractor returns is non-empty,
\* stripped and does not begin with '#' (blank lines and comment lines, the
\* indented ones too, are discarded), the other lines come in file order, the
\* count is the number returned, and a missing manifest gives the empty list
\* and count 0.
C19_Specifiers ==
    pc = "done" => WellExtracted(deps1, unit1) /\ WellExtracted(deps2, unit2)

\* ------------------------------------------------------------------- C20

RECURSIVE Flatten(_)
Flatten(lists) ==
    IF lists = <<>> THEN <<>> ELSE Head(lists) \o Flatten(Tail(lists))

\* the entries of a mapping under a key of a mapping, none without the key
EntriesUnder(y, key) == IF HasKey(y, key) THEN get(y, key, YNull).entries ELSE <<>>

\* the non-empty types of the triggers one resource declares, in order
TriggersOf(resource) ==
    LET events == EntriesUnder(get(resource, "Properties", YMap(<<>>)), "Events")
        typed == SelectSeq(events, LAMBDA e : HasKey(e[2], "Type")
                                              /\ get(e[2], "Type", YNull).s # "")
    IN  [k \in DOMAIN typed |-> get(typed[k][2], "Type", YNull).s]

\* the trigger types a unit's descriptor declares: none when there is no
\* descriptor, when it cannot be loaded, or when it is empty
DeclaredTriggers(unit) ==
    IF unit.template.state # "loaded" \/ unit.template.value.t # "map" THEN <<>>
    ELSE LET resources == EntriesUnder(unit.template.value, "Resources")
         IN  Flatten([k \in DOMAIN resources |-> TriggersOf(resources[k][2])])

\* the list is the declared triggers, or the fallback label alone
ReportedSources(sources, unit) ==
    /\ sources # <<>>
    /\ DeclaredTriggers(unit) # <<>> => sources = DeclaredTriggers(unit)
    /\ DeclaredTriggers(unit) = <<>> => sources = <<"Direct Invocation">>
    /\ "Direct Invocation" \in ToSet(sources) => DeclaredTriggers(unit) = <<>>

\* C20: the event-source list of a unit is never empty: it is the declared
\* trigger types when a trigger with a non-empty type is declared, the single
\* label 'Direct Invocation' otherwise, and the label never accompanies a
\* declared trigger.
C20_EventSources ==
    AstDone => /\ ReportedSources(event_sources1, unit1)
               /\ ReportedSources(event_sources2, unit2)

\* the triggers under the first resource of a unit's template
FirstEvents(unit) ==
    EntriesUnder(get(EntriesUnder(unit.template.value, "Resources")[1][2],
                     "Properties", YNull), "Events")

\* two triggers were declared, one of them with an empty type, beside a
\* second resource with a trigger of its own
C20_Witness ==
    /\ AstDone
    /\ event_sources1 = <<"S3", "Schedule">>
    /\ Len(FirstEvents(unit1)) = 2

\* the fallback was reported for a template whose only trigger has no type
C20_WitnessFallback ==
    /\ AstDone
    /\ event_sources1 = <<"Direct Invocation">>
    /\ unit1.template.state = "loaded"
    /\ unit1.template.value.t = "map"
    /\ HasKey(unit1.template.value, "Resources")
    /\ Len(FirstEvents(unit1)) = 1

\* ------------------------------------------------------------------- C21

\* the function-like resources a unit's descriptor declares, in declaration
\* order: none without a descriptor or when it cannot be parsed
FunctionResources(unit) ==
    IF unit.template.state # "loaded" \/ unit.template.value.t # "map" THEN <<>>
    ELSE SelectSeq(EntriesUnder(unit.template.value, "Resources"),
                   LAMBDA e : get(e[2], "Type", YNull)
                                 \in {YStr("AWS::Lambda::Function"),
                                      YStr("AWS::Serverless::Function")})

\* the all-defaults configuration
AllDefaults(config) ==
    /\ config.runtime = "unknown"
    /\ config.memory = 128
    /\ config.timeout = 3
    /\ config.handler = "lambda_function.lambda_handler"
    /\ config.description = ""
    /\ config.environment_vars = {}
    /\ config.layers = <<>>
    /\ config.tracing_enabled = FALSE
    /\ config.ephemeral_storage = 512
    /\ config.architecture = "x86_64"

\* what a resource declares under a key of its Properties, else the default
DeclaredOr(resource, key, default) ==
    py(get(get(resource, "Properties", YMap(<<>>)), key, default))

\* the unit with every resource but the given one removed from its
\* descriptor
WithOnly(unit, entry) == [unit EXCEPT !.template = Resources(<<entry>>)]

\* C21: the config extractor returns the all-defaults configuration when
\* there is no descriptor, when the descriptor fails to parse and when it
\* declares no function-like resource; otherwise the first function-like
\* resource in declaration order alone determines the configuration.
C21_DefaultsAndFirst ==
    pc # "start" =>
        /\ pc = "done"
        /\ config1.name = unit1.name
        /\ IF FunctionResources(unit1) = <<>>
           THEN AllDefaults(config1)
           ELSE LET first == FunctionResources(unit1)[1] IN
                /\ config1.runtime = DeclaredOr(first[2], "Runtime", YStr("unknown"))
                /\ config1.memory = DeclaredOr(first[2], "MemorySize", YInt(128))
                /\ config1.timeout = DeclaredOr(first[2], "Timeout", YInt(3))
                /\ config1.description = DeclaredOr(first[2], "Description", YStr(""))
                /\ Returns(config1) =
                      extract_function_config(unit1.name, WithOnly(unit1, first))

\* a descriptor declared a bucket and two functions of different memory,
\* and the first function's memory was reported
C21_Witness ==
    /\ pc = "done"
    /\ Len(FunctionResources(unit1)) = 2
    /\ Len(EntriesUnder(unit1.template.value, "Resources")) = 3
    /\ DeclaredOr(FunctionResources(unit1)[1][2], "MemorySize", YInt(128)) = 256
    /\ DeclaredOr(FunctionResources(unit1)[2][2], "MemorySize", YInt(128)) = 128
    /\ config1.memory = 256

\* a descriptor that declares resources, none of them function-like, gave
\* the same configuration as no descriptor
C21_WitnessNoFunction ==
    /\ pc = "done"
    /\ unit1.template.state = "loaded"
    /\ unit1.template.value.t = "map"
    /\ Len(EntriesUnder(unit1.template.value, "Resources")) = 2
    /\ FunctionResources(unit1) = <<>>
    /\ AllDefaults(config1)

\* ------------------------------------------------------------------- C22

\* whether a sequence begins with another
IsPrefix(s, t) == Len(s) <= Len(t) /\ s = SubSeq(t, 1, Len(s))

\* the commands and the question of apply_terraform among its steps
TerraformSteps == SelectSeq(steps, LAMBDA s : s \in {"init", "plan", "input", "apply"})

\* the user answered yes or y
SaidYes ==
    /\ world.answer.exc = "none"
    /\ world.answer.value \in {"yes", "y", "Y", " Yes "}

\* C22: apply_terraform runs init, plan, the confirmation and apply in
\* that order; apply runs only after init returned 0, plan returned 0 and
\* the user said yes; a failed init or plan returns False and a declined
\* confirmation returns True, each without running any later step.
C22_TerraformOrder ==
    pc # "start" =>
        /\ IsPrefix(TerraformSteps, <<"init", "plan", "input", "apply">>)
        /\ "apply" \in ToSet(steps) =>
              world.init = Returns(0) /\ world.plan = Returns(0) /\ SaidYes
        /\ "init" \in ToSet(steps) /\ world.init = Returns(1) =>
              /\ pc = "returned" /\ returned = FALSE
              /\ TerraformSteps = <<"init">>
        /\ "plan" \in ToSet(steps) /\ world.plan = Returns(1) =>
              /\ pc = "returned" /\ returned = FALSE
              /\ TerraformSteps = <<"init", "plan">>
        /\ "input" \in ToSet(steps) /\ world.answer.exc = "none" /\ ~SaidYes =>
              /\ pc = "returned" /\ returned = TRUE
              /\ TerraformSteps = <<"init", "plan", "input">>

\* the plan was applied after the user said " Yes "
C22_Witness ==
    /\ pc = "returned"
    /\ returned = TRUE
    /\ TerraformSteps = <<"init", "plan", "input", "apply">>
    /\ world.answer = Returns(" Yes ")

\* the user declined: True was returned and nothing was applied
C22_WitnessDeclined ==
    /\ pc = "returned"
    /\ returned = TRUE
    /\ world.answer = Returns("no")
    /\ TerraformSteps = <<"init", "plan", "input">>

\* ------------------------------------------------------------------- C23

\* the steps of an upgrade in their fixed order
UpgradeOrder == <<"syntax", "template", "requirements", "sam_version", "sam_build">>

\* the operations among the steps taken
StepOps == [k \in DOMAIN steps |-> steps[k].op]

\* the step reported failure: it returned False or raised
ReportedFailure(answer) == answer # Returns(TRUE)

\* C23: upgrade_function runs syntax fix, template update, requirements
\* update and SAM build in that order; the first step that reports failure
\* makes it return False with no later step run; without a working SAM CLI
\* it returns True and does not build.
C23_UpgradeOrder ==
    pc # "start" =>
        LET f == world.functions[1] IN
        /\ pc = "returned"
        /\ IsPrefix(StepOps, UpgradeOrder)
        /\ ReportedFailure(f.syntax) =>
              returned = FALSE /\ StepOps = <<"syntax">>
        /\ ~ReportedFailure(f.syntax) /\ ReportedFailure(f.template) =>
              returned = FALSE /\ StepOps = <<"syntax", "template">>
        /\ (~ReportedFailure(f.syntax) /\ ~ReportedFailure(f.template)
            /\ ReportedFailure(f.requirements)) =>
              returned = FALSE /\ StepOps = <<"syntax", "template", "requirements">>
        /\ "sam_version" \in ToSet(StepOps) /\ f.sam # Returns(0) =>
              returned = TRUE /\ "sam_build" \notin ToSet(StepOps)
        /\ "sam_build" \in ToSet(StepOps) =>
              /\ StepOps = UpgradeOrder
              /\ returned = (f.build = Returns(0))

\* the syntax fix failed: False was returned and no other step was run
\* although every other step would have succeeded
C23_Witness ==
    /\ pc = "returned"
    /\ returned = FALSE
    /\ StepOps = <<"syntax">>
    /\ world.functions[1].syntax = Returns(FALSE)
    /\ world.functions[1].template = Returns(TRUE)
    /\ world.functions[1].build = Returns(0)

\* the SAM CLI was not available: True was returned without a build
C23_WitnessNoSam ==
    /\ pc = "returned"
    /\ returned = TRUE
    /\ StepOps = <<"syntax", "template", "requirements", "sam_version">>
    /\ world.functions[1].sam = Raises("TimeoutExpired")

\* ------------------------------------------------------------------- C24

\* the functions of the configuration that are enabled, in its order
EnabledFunctions == SelectSeq(world.functions, LAMBDA f : f.enabled \in {"unset", "true"})

\* the names upgrade_function was called for, in the order of the calls
UpgradeCalls ==
    LET calls == SelectSeq(steps, LAMBDA s : s.op = "upgrade_function")
    IN  [k \in DOMAIN calls |-> calls[k].name]

\* C24: upgrade_all_functions calls upgrade_function once for each enabled
\* function, in configuration order, and for no disabled one, whatever the
\* earlier upgrades returned; the map it returns has one entry per enabled
\* function with that function's outcome; report_results returns 0 exactly
\* when every entry is a success.
C24_UpgradeAll ==
    pc # "start" =>
        /\ pc = "returned"
        /\ UpgradeCalls = [k \in DOMAIN EnabledFunctions |-> EnabledFunctions[k].name]
        /\ DOMAIN returned.results = {EnabledFunctions[k].name : k \in DOMAIN EnabledFunctions}
        /\ Cardinality(DOMAIN returned.results) = Len(EnabledFunctions)
        /\ \A k \in DOMAIN EnabledFunctions :
              returned.results[EnabledFunctions[k].name]
                 = upgrade_function(EnabledFunctions[k]).value
        /\ returned.code \in {0, 1}
        /\ returned.code = 0 <=> \A n \in DOMAIN returned.results : returned.results[n]

\* the first function failed, the second was disabled and the third was
\* upgraded all the same
C24_Witness ==
    /\ pc = "returned"
    /\ Len(world.functions) = 3
    /\ world.functions[2].enabled = "false"
    /\ world.functions[3].enabled = "unset"
    /\ UpgradeCalls = <<"func1", "func3">>
    /\ returned.results = ("func1" :> FALSE) @@ ("func3" :> TRUE)
    /\ returned.code = 1

\* ------------------------------------------------------------------- C25

\* C25: in a batch no report file written for one pair is written again
\* for another pair of the list that names other directories.
C25_OwnReportFiles ==
    pc = "completed" =>
        \A m, n \in DOMAIN steps :
            world.pairs[steps[m].pair] # world.pairs[steps[n].pair]
                => steps[m].file # steps[n].file

\* ------------------------------------------------------------------- C26

\* C26: the text report and the JSON report compare_functions_ast writes
\* for a pair render the same comparison result, whatever another process
\* does to the units' files meanwhile.
C26_OneResult ==
    pc = "written" =>
        \A r, s \in created : r.comparison = s.comparison

\* ------------------------------------------------------------------- C27

\* the call expressions of the first unit's one file
CallsOf(unit) ==
    {unit.source.files[1].nodes[j] : j \in DOMAIN unit.source.files[1].nodes}

BareName(n) == n.attr = "" /\ n.name # ""
OnSimpleName(n) == n.attr # "" /\ n.name # ""

\* C27: a bare-name call is recorded iff its name is not a built-in, an
\* attribute call on a simple name is recorded as base.attribute iff the
\* attribute is not excluded, and no other call is recorded; so no
\* recorded identifier is a bare built-in name and none ends in an
\* excluded attribute.
C27_RecordedCalls ==
    AstDone =>
        /\ \A n \in CallsOf(unit1) :
              /\ BareName(n) =>
                    (n.name \in ToSet(ast1.external_calls) <=> n.name \notin _BUILTINS)
              /\ OnSimpleName(n) =>
                    (n.name \o "." \o n.attr \in ToSet(ast1.external_calls)
                        <=> n.attr \notin _SKIP_ATTRS)
        /\ \A c \in ToSet(ast1.external_calls) :
              \E n \in CallsOf(unit1) :
                 \/ BareName(n) /\ c = n.name
                 \/ OnSimpleName(n) /\ c = n.name \o "." \o n.attr
        /\ \A c \in ToSet(ast1.external_calls) :
              /\ c \notin _BUILTINS
              /\ \A n \in CallsOf(unit1), a \in _SKIP_ATTRS : c # n.name \o "." \o a

\* a file with an excluded and a recorded attribute call was analysed
C27_Witness ==
    /\ AstDone
    /\ \E m, n \in CallsOf(unit1) :
          /\ OnSimpleName(m) /\ m.attr \in _SKIP_ATTRS
          /\ OnSimpleName(n) /\ n.attr \notin _SKIP_ATTRS
    /\ Len(ast1.external_calls) = 1

\* a file with a built-in call and a call on something unnamed has no
\* recorded call
C27_WitnessNone ==
    /\ AstDone
    /\ \E m, n \in CallsOf(unit1) :
          /\ BareName(m) /\ m.name \in _BUILTINS
          /\ n.name = ""
    /\ ast1.external_calls = <<>>

\* ------------------------------------------------------------------- C28

\* C28: comparing two units in the other order gives the same similarity
\* score and the negated complexity, line and statement differences, each
\* difference being the second unit's value minus the first unit's.
C28_SymmetricScore ==
    /\ pc \in {"done", "swapped"} =>
          /\ ast_cmp.complexity_diff.difference
                = ast2.cyclomatic_complexity - ast1.cyclomatic_complexity
          /\ ast_cmp.lines_diff = ast2.total_lines - ast1.total_lines
          /\ ast_cmp.statements_diff = ast2.total_statements - ast1.total_statements
    /\ pc = "swapped" =>
          /\ ast_cmp.semantic_similarity_score
                = comparisons[1].semantic_similarity_score
          /\ ast_cmp.complexity_diff.difference
                = 0 - comparisons[1].complexity_diff.difference
          /\ ast_cmp.lines_diff = 0 - comparisons[1].lines_diff
          /\ ast_cmp.statements_diff = 0 - comparisons[1].statements_diff

\* both orders were compared for two units that differ in the number of
\* functions, in complexity and in size, and share a function
C28_Witness ==
    /\ pc = "swapped"
    /\ Len(ast1.functions) > Len(ast2.functions)
    /\ ToSet(ast1.functions) \cap ToSet(ast2.functions) # {}
    /\ ast_cmp.complexity_diff.difference > 0
    /\ ast_cmp.lines_diff < 0
    /\ ast_cmp.statements_diff < 0

\* ------------------------------------------------------------------- C29

EnabledOf(w) == SelectSeq(w.functions, is_enabled)
Took(op) == \E k \in DOMAIN steps : steps[k].op = op
LastStep == steps[Len(steps)].op

\* C29: deploy() calls Terraform only if every enabled function has an
\* existing, non-empty, valid ZIP package; any failed, missing, empty or
\* invalid package gives the failed-deployment cleanup and 1 without
\* Terraform; 1 is returned only after the failed-deployment cleanup and
\* 0 only after the successful-deployment cleanup.
C29_TerraformAfterPackaging ==
    pc \in {"returned", "raised"} =>
        /\ Took("apply_terraform") =>
              \A k \in DOMAIN EnabledOf(world) : EnabledOf(world)[k].package = "ok"
        /\ (\E k \in DOMAIN EnabledOf(world) : EnabledOf(world)[k].package # "ok") =>
              /\ ~Took("apply_terraform")
              /\ pc = "returned" /\ returned = 1
        /\ pc = "returned" /\ returned = 1 => LastStep = "cleanup_failed"
        /\ pc = "returned" /\ returned = 0 => LastStep = "cleanup_successful"

\* ------------------------------------------------------------------- C30

\* the enabled functions get_function found in AWS
FoundInAws(w) ==
    IF w.credentials # "ok" THEN {}
    ELSE {EnabledOf(w)[k].name :
            k \in {j \in DOMAIN EnabledOf(w) : EnabledOf(w)[j].aws = "exists"}}

\* C30: a function found in AWS is marked 'skipped' and is not among the
\* functions of the Terraform variables deploy() generates; when every
\* enabled function is found, Terraform is not called and deploy()
\* returns 0.
C30_ExistingSkipped ==
    pc = "returned" =>
        /\ \A k \in DOMAIN console :
              console[k].deployment_status = "skipped"
                 <=> console[k].name \in FoundInAws(world)
        /\ \A file \in created :
              file.kind = "tfvars" => file.functions \cap FoundInAws(world) = {}
        /\ (\A k \in DOMAIN EnabledOf(world) :
               EnabledOf(world)[k].name \in FoundInAws(world)
               /\ EnabledOf(world)[k].package = "ok")
              => ~Took("apply_terraform") /\ returned = 0

====
